---- MODULE Spec2Model ----
(***************************************************************************)
(* The refresh orchestrator and the view-state reconciler of the ECS       *)
(* monitor, in its two evolutions:                                         *)
(*   Spec      the two-panel application   (src/grapes/ui/app.py)           *)
(*   SpecFold  the same with the detail view's fold toggling               *)
(*   Spec3     the three-panel application (src/ecs_monitor/ui/app.py)      *)
(*                                                                         *)
(* The owner thread runs one handler at a time (a key binding, the timer   *)
(* callback, a widget message, a Worker.StateChanged message).  A handler  *)
(* is an operator from the state the owner thread sees (a record, World)   *)
(* to that state after the handler; the methods it calls are operators of  *)
(* the same shape, composed as the code composes them.  A fetch runs on a  *)
(* worker thread, one remote call per step, interleaved with the handlers. *)
(***************************************************************************)
EXTENDS Naturals, Sequences, FiniteSets, TLC

VARIABLES
    app,              \* ECSMonitorApp: reactive fields, _refresh_worker
    cluster_list,     \* ClusterList widget: clusters, selected_cluster_name
    detail_view,      \* ClusterDetailView widget: cluster, _folded_services
    service_list,     \* ServiceList widget (three-panel): services, selected_service_name
    task_list,        \* TaskList widget (three-panel): service
    aws_clients,      \* AWSClients: cluster_name, shared with the worker thread
    metrics_fetcher,  \* MetricsFetcher: _insights_enabled
    screen,           \* mounted, #loading / #main-container display, status_message
    threads,          \* worker threads that have not returned yet
    queue,            \* Worker.StateChanged messages not handled yet
    log,              \* history: what the handler that just ran dispatched,
                      \*   skipped and notified (empty after any other step)
    insights_checked, \* history: a statistics query was issued since the selected
                      \*   cluster last changed
    last_delivered,   \* history: the snapshot the step that just ran delivered
    unit              \* the component analysed on its own (the task-definition
                      \*   cache, ...); None while the application runs

appVars == <<app, cluster_list, detail_view, service_list, task_list, aws_clients,
             metrics_fetcher, screen, threads, queue, log, insights_checked,
             last_delivered>>

vars == <<appVars, unit>>

\* Python's None: as an object (a Cluster, a Worker, a result) and as a name.
\* A list the worker returns is boxed, [list |-> <<...>>], and an optional
\* bool is boxed, [bool |-> b], so that each compares with None.
None == [none |-> TRUE]
NoName == "None"
PyList(seq) == [list |-> seq]
PyBool(b) == [bool |-> b]

\* ---------------------------------------------------------------- bounds
ClusterNames == {"alpha", "beta"}
ServiceNames == {"web", "api"}
\* the values config.cluster.name takes in the model (unset, or a cluster)
ConfiguredNames == {NoName, "alpha"}
\* StateChanged messages waiting in the owner thread's queue
MaxQueue == 1

\* ------------------------------------------------------------ data model
\* A Cluster as list_clusters returns it: counts only, no services.
ListedCluster(n) == [name |-> n, services |-> {}]

\* The cluster listings the orchestration API can return, in the API's order.
ClusterLists ==
    {<<>>, <<ListedCluster("alpha")>>, <<ListedCluster("beta")>>,
     <<ListedCluster("alpha"), ListedCluster("beta")>>}

\* The service sets a two-panel snapshot can hold (a service is its name).
ServiceSets == {{"web"}, {"web", "api"}}

Names(cs) == {cs[i].name : i \in DOMAIN cs}

SelectedName(a) == IF a.selected_cluster = None THEN NoName ELSE a.selected_cluster.name

\* --------------------------------------------------------------- World
World ==
    [app |-> app, cluster_list |-> cluster_list, detail_view |-> detail_view,
     service_list |-> service_list, task_list |-> task_list,
     aws_clients |-> aws_clients, screen |-> screen, threads |-> threads,
     log |-> <<>>]

Logged(w, e) == [w EXCEPT !.log = Append(@, e)]

\* self.notify(...): the handler raises a toast of that kind (toasts expire,
\* so they are kept with the handler's calls and not as standing state).
notify(w, kind) == Logged(w, <<"notify", kind>>)

\* ------------------------------------------------- refresh orchestrator
\* Faulty variant: a worker counts as running only before it has started.
is_running_pending(w) ==
    /\ w.app._refresh_worker /= None
    /\ w.app._refresh_worker.state = "PENDING"

\* self._refresh_worker is not None and self._refresh_worker.is_running
is_running(w) ==
    /\ w.app._refresh_worker /= None
    /\ w.app._refresh_worker.state = "RUNNING"

\* The thread a new worker starts: its first remote call is still to come.
\* As history it keeps the calls it has made (steps) and the cluster names
\* they were made for (called_for).
NewThread(name) ==
    [name |-> name,
     pc |-> IF name = "fetch_clusters" THEN "list_clusters"
            ELSE "check_container_insights",
     cluster |-> None, result |-> None, raised |-> FALSE, steps |-> <<>>,
     called_for |-> {}, cancelled |-> FALSE]

\* self.run_worker(fn, name=..., exclusive=True, thread=True): the workers of
\* the group are cancelled (a cancelled thread worker runs on to its return,
\* its result is dropped), the new worker is RUNNING when run_worker returns.
run_worker(w, name) ==
    Logged(
        [w EXCEPT
            !.threads = Append([i \in DOMAIN @ |-> [@[i] EXCEPT !.cancelled = TRUE]],
                               NewThread(name)),
            !.app._refresh_worker = [name |-> name, state |-> "RUNNING"]],
        <<"run_worker", name>>)

\* Faulty variant: the list fetch is dispatched without the is_running guard.
_fetch_cluster_list_unguarded(w) == run_worker(w, "fetch_clusters")

_fetch_cluster_list(w) ==
    IF is_running(w)
    THEN Logged(w, <<"skip", "fetch_clusters">>)
    ELSE run_worker(w, "fetch_clusters")

_fetch_cluster_data(w) ==
    IF w.app.selected_cluster = None
    THEN w
    ELSE IF is_running(w)
         THEN Logged(w, <<"skip", "refresh_data">>)
         ELSE run_worker(w, "refresh_data")

\* ------------------------------------------------ view-state reconciler
_focus_clusters_panel(w) == [w EXCEPT !.app.focus_panel = "CLUSTERS"]

_focus_detail_panel(w) == [w EXCEPT !.app.focus_panel = "DETAIL"]

\* ClusterDetailView.watch_cluster, run by the reactive when the value changes.
watch_cluster(dv, cluster) ==
    IF cluster = None THEN [dv EXCEPT !._folded_services = {}] ELSE dv

\* Faulty variant: every assignment drops the folded names the cluster
\* displayed before did not have.
set_detail_cluster_prune_stale(dv, value) ==
    [dv EXCEPT !.cluster = value,
               !._folded_services =
                   IF value = None \/ dv.cluster = None THEN {}
                   ELSE @ \cap dv.cluster.services]

\* detail_view.cluster = value: a reactive without always_update runs its
\* watcher only when the new value differs from the old one.
set_detail_cluster(dv, value) ==
    IF dv.cluster = value
    THEN dv
    ELSE watch_cluster([dv EXCEPT !.cluster = value], value)

_update_detail_view(w) ==
    [w EXCEPT !.detail_view = set_detail_cluster(@, w.app.selected_cluster)]

_select_cluster(w, cluster, change_focus) ==
    LET w1 == [w EXCEPT !.app.selected_cluster = cluster,
                        !.cluster_list.selected_cluster_name = cluster.name,
                        !.cluster_list.show_cursor =
                            IF change_focus THEN FALSE ELSE @,
                        !.aws_clients.cluster_name = cluster.name]
        w2 == _fetch_cluster_data(w1)
    IN  IF change_focus THEN _focus_detail_panel(w2) ELSE w2

\* Faulty variant: the selection is cleared and the focus is left where it was.
_deselect_cluster_keep_focus(w) ==
    [w EXCEPT !.app.selected_cluster = None,
              !.cluster_list.selected_cluster_name = NoName,
              !.cluster_list.show_cursor = TRUE,
              !.detail_view = set_detail_cluster(@, None)]

_deselect_cluster(w) ==
    LET w1 == [w EXCEPT !.app.selected_cluster = None,
                        !.cluster_list.selected_cluster_name = NoName,
                        !.cluster_list.show_cursor = TRUE,
                        !.detail_view = set_detail_cluster(@, None)]
    IN  _focus_clusters_panel(w1)

\* The first cluster of the list with the configured name (the for loop with
\* its break), or None.
FirstNamed(cs, n) ==
    IF \E i \in DOMAIN cs : cs[i].name = n
    THEN cs[CHOOSE i \in DOMAIN cs :
                /\ cs[i].name = n
                /\ \A j \in DOMAIN cs : cs[j].name = n => i <= j]
    ELSE None

\* Faulty variant: the loading flag is cleared but the view state is not set.
transition_to_main_keep_view(w) ==
    [w EXCEPT !.app.loading = FALSE,
              !.screen.loading_display = FALSE,
              !.screen.main_display = TRUE]

\* "Transition to main view if still loading".
transition_to_main(w) ==
    [w EXCEPT !.app.loading = FALSE,
              !.screen.loading_display = FALSE,
              !.screen.main_display = TRUE,
              !.app.current_view = "MAIN"]

\* Faulty variant: every cluster-list delivery counts as the initial load.
is_initial_load_always(w) == TRUE

\* "Track if this is initial load": is_initial_load = self.loading
is_initial_load(w) == w.app.loading

_handle_clusters_fetch_result(w, event) ==
    IF event.state = "SUCCESS"
    THEN IF event.result /= None
         THEN LET w1 == [w EXCEPT !.app.clusters = event.result.list]
                  w2 == IF w1.app.loading THEN transition_to_main(w1) ELSE w1
                  w3 == [w2 EXCEPT !.cluster_list.clusters = w2.app.clusters]
                  configured == FirstNamed(w3.app.clusters, w3.app._configured_cluster)
              IN  IF is_initial_load(w) /\ w3.app.selected_cluster = None
                  THEN IF w3.app._configured_cluster /= NoName
                       THEN IF configured /= None
                            THEN _select_cluster(w3, configured, TRUE)
                            ELSE w3
                       ELSE IF Len(w3.app.clusters) = 1
                            THEN _select_cluster(w3, w3.app.clusters[1], TRUE)
                            ELSE _focus_clusters_panel(w3)
                  ELSE w3
         ELSE w
    ELSE IF event.state = "ERROR"
         THEN notify(
                  IF w.app.loading
                  THEN [w EXCEPT !.screen.status_message = "Error"]
                  ELSE w,
                  "Error loading clusters")
         ELSE w

_handle_cluster_data_result(w, event) ==
    IF event.state = "SUCCESS"
    THEN IF event.result /= None
         THEN _update_detail_view([w EXCEPT !.app.selected_cluster = event.result])
         ELSE w
    ELSE IF event.state = "ERROR"
         THEN notify(w, "Error loading data")
         ELSE w

\* --------------------------------------------------------- worker thread
\* MetricsFetcher._report_progress -> ECSMonitorApp._on_progress: the loading
\* screen shows the message while the app is still loading.
_on_progress(scr, message) ==
    IF app.loading THEN [scr EXCEPT !.status_message = message] ELSE scr

\* _fetch_clusters_worker: what the try/except returns for an outcome of
\* list_clusters.
_fetch_clusters_worker_result(out) ==
    IF out.raised THEN PyList(<<>>) ELSE PyList(out.value)

\* The outcomes of ECSFetcher.list_clusters: a listing, or an exception.
list_clusters(Lists) ==
    {[raised |-> TRUE, value |-> <<>>]}
        \cup {[raised |-> FALSE, value |-> cs] : cs \in Lists}

\* The outcomes of ECSFetcher.fetch_cluster_state for the cluster name the
\* shared clients hold at the time of the call.
fetch_cluster_state(Services) ==
    {[raised |-> TRUE, value |-> None]}
        \cup {[raised |-> FALSE,
               value |-> [name |-> aws_clients.cluster_name, services |-> ss]] :
                   ss \in Services}

\* Faulty variant: a failed statistics query counts as enabled.
check_container_insights_error_enabled(outcome) == outcome /= "no_datapoints"

\* MetricsFetcher.check_container_insights: datapoints => True, no datapoints
\* or a failed query => False; the result is stored.
check_container_insights(outcome) == outcome = "datapoints"

\* Faulty variant: the worker goes on to the metrics after a failed fetch.
after_fetch_cluster_state_no_abort(raised) == "fetch_metrics_for_cluster"

\* Where _fetch_cluster_data_worker goes after fetch_cluster_state: on with
\* the metrics, or through the except clause to return None.
after_fetch_cluster_state(raised) ==
    IF raised THEN "return" ELSE "fetch_metrics_for_cluster"

ThreadStep(i, t) ==
    /\ threads' = [threads EXCEPT ![i] = t]
    /\ log' = <<>>
    /\ last_delivered' = None
    /\ UNCHANGED <<cluster_list, detail_view, service_list, task_list,
                   aws_clients, queue, unit>>

_fetch_clusters_worker(i, Lists) ==
    /\ threads[i].name = "fetch_clusters"
    /\ threads[i].pc = "list_clusters"
    /\ \E out \in list_clusters(Lists) :
          ThreadStep(i, [threads[i] EXCEPT
              !.pc = "return",
              !.steps = Append(@, "list_clusters"),
              !.raised = out.raised,
              !.result = _fetch_clusters_worker_result(out)])
    /\ screen' = _on_progress(screen, "Listing clusters...")
    /\ UNCHANGED <<app, metrics_fetcher, insights_checked>>

worker_check_container_insights(i) ==
    /\ threads[i].name = "refresh_data"
    /\ threads[i].pc = "check_container_insights"
    /\ \E outcome \in {"datapoints", "empty", "raises"} :
          LET enabled == check_container_insights(outcome)
          IN  /\ metrics_fetcher' = [metrics_fetcher EXCEPT !._insights_enabled = PyBool(enabled)]
              /\ app' = [app EXCEPT !.insights_enabled = enabled]
    /\ ThreadStep(i, [threads[i] EXCEPT
          !.pc = "fetch_cluster_state",
          !.steps = Append(@, "check_container_insights"),
          !.called_for = @ \cup {aws_clients.cluster_name}])
    /\ screen' = _on_progress(screen, "Checking Container Insights status...")
    /\ insights_checked' = TRUE

worker_fetch_cluster_state(i, Services) ==
    /\ threads[i].name = "refresh_data"
    /\ threads[i].pc = "fetch_cluster_state"
    /\ \E out \in fetch_cluster_state(Services) :
          ThreadStep(i, [threads[i] EXCEPT
              !.pc = after_fetch_cluster_state(out.raised),
              !.steps = Append(@, "fetch_cluster_state"),
              !.called_for = @ \cup {aws_clients.cluster_name},
              !.raised = out.raised,
              !.cluster = out.value])
    /\ UNCHANGED <<app, metrics_fetcher, screen, insights_checked>>

\* fetch_metrics_for_cluster reads the cached insights flag (checking it when
\* it is still unknown) and attaches the metrics to the snapshot in place; the
\* worker then returns the snapshot.  The metric values and the snapshot's
\* copy of the insights flag are display data, not kept in a Cluster here.
worker_fetch_metrics_for_cluster(i) ==
    /\ threads[i].name = "refresh_data"
    /\ threads[i].pc = "fetch_metrics_for_cluster"
    /\ IF metrics_fetcher._insights_enabled = None
       THEN /\ \E outcome \in {"datapoints", "empty", "raises"} :
                  metrics_fetcher' = [metrics_fetcher EXCEPT
                      !._insights_enabled = PyBool(check_container_insights(outcome))]
            /\ insights_checked' = TRUE
       ELSE UNCHANGED <<metrics_fetcher, insights_checked>>
    /\ ThreadStep(i, [threads[i] EXCEPT
          !.pc = "return",
          !.steps = Append(@, "fetch_metrics_for_cluster"),
          !.called_for = IF threads[i].cluster = None
                         THEN @
                         ELSE @ \cup {threads[i].cluster.name},
          !.result = threads[i].cluster])
    /\ UNCHANGED <<app, screen>>

Without(seq, i) == [j \in 1..(Len(seq) - 1) |-> IF j < i THEN seq[j] ELSE seq[j + 1]]

\* The worker function has returned: the Worker becomes SUCCESS (the worker
\* functions catch every exception, so never ERROR) and posts
\* Worker.StateChanged to the app; a cancelled worker's result is dropped.
worker_done(i) ==
    /\ threads[i].pc = "return"
    /\ Len(queue) < MaxQueue
    /\ threads' = Without(threads, i)
    /\ IF threads[i].cancelled
       THEN UNCHANGED <<app, queue>>
       ELSE /\ app' = [app EXCEPT !._refresh_worker.state = "SUCCESS"]
            /\ queue' = Append(queue,
                   [name |-> threads[i].name, state |-> "SUCCESS",
                    result |-> threads[i].result, raised |-> threads[i].raised,
                    steps |-> threads[i].steps,
                    called_for |-> threads[i].called_for])
    /\ log' = <<>>
    /\ last_delivered' = None
    /\ UNCHANGED <<cluster_list, detail_view, service_list, task_list, aws_clients,
                   metrics_fetcher, screen, insights_checked, unit>>

\* ---------------------------------------------------------- owner thread
\* A handler `op` has run to completion and left the owner thread's state `w`.
Owner(op, w) ==
    /\ app' = w.app
    /\ cluster_list' = w.cluster_list
    /\ detail_view' = w.detail_view
    /\ service_list' = w.service_list
    /\ task_list' = w.task_list
    /\ aws_clients' = w.aws_clients
    /\ screen' = w.screen
    /\ threads' = w.threads
    /\ log' = w.log
    /\ insights_checked' =
          IF SelectedName(w.app) /= SelectedName(app) THEN FALSE ELSE insights_checked
    /\ UNCHANGED <<metrics_fetcher, unit>>

\* on_mount: hide the main container, show the loading screen, start the first
\* cluster-list fetch and the refresh timer.
on_mount ==
    /\ ~screen.mounted
    /\ Owner("on_mount",
             _fetch_cluster_list([World EXCEPT !.screen.mounted = TRUE,
                                               !.screen.main_display = FALSE,
                                               !.screen.loading_display = TRUE]))
    /\ last_delivered' = None
    /\ UNCHANGED queue

_periodic_refresh_w(w) ==
    IF ~w.app.loading /\ w.app.current_view = "MAIN"
    THEN LET w1 == _fetch_cluster_list(w)
         IN  IF w1.app.selected_cluster /= None THEN _fetch_cluster_data(w1) ELSE w1
    ELSE w

_periodic_refresh ==
    /\ screen.mounted
    /\ Owner("_periodic_refresh", _periodic_refresh_w(World))
    /\ last_delivered' = None
    /\ UNCHANGED queue

action_refresh_w(w) ==
    LET w1 == _fetch_cluster_list(notify(w, "Refreshing..."))
    IN  IF w1.app.selected_cluster /= None THEN _fetch_cluster_data(w1) ELSE w1

action_refresh ==
    /\ screen.mounted
    /\ Owner("action_refresh", action_refresh_w(World))
    /\ last_delivered' = None
    /\ UNCHANGED queue

action_go_back_w(w) ==
    IF w.app.focus_panel = "DETAIL" /\ w.app.selected_cluster /= None
    THEN _deselect_cluster(w)
    ELSE w

action_go_back ==
    /\ screen.mounted
    /\ Owner("action_go_back", action_go_back_w(World))
    /\ last_delivered' = None
    /\ UNCHANGED queue

\* ClusterSelected, posted by the cluster list for one of the rows it shows.
on_cluster_selected(cluster) ==
    /\ screen.mounted /\ screen.main_display
    /\ cluster \in {cluster_list.clusters[i] : i \in DOMAIN cluster_list.clusters}
    /\ Owner("on_cluster_selected", _select_cluster(World, cluster, TRUE))
    /\ last_delivered' = None
    /\ UNCHANGED queue

\* ClusterDeselected / ClusterDetailDeselected, posted by the panels on escape.
on_cluster_deselected ==
    /\ screen.mounted /\ screen.main_display
    /\ Owner("on_cluster_deselected", _deselect_cluster(World))
    /\ last_delivered' = None
    /\ UNCHANGED queue

\* ClusterDetailView._toggle_fold_at_cursor with the cursor on the row of
\* service `name` of the displayed cluster.
_toggle_fold_at_cursor(dv, name) ==
    IF dv.cluster = None
    THEN dv
    ELSE IF name \in dv._folded_services
         THEN [dv EXCEPT !._folded_services = @ \ {name}]
         ELSE [dv EXCEPT !._folded_services = @ \cup {name}]

on_data_table_row_selected(name) ==
    /\ screen.mounted /\ screen.main_display
    /\ detail_view.cluster /= None
    /\ name \in detail_view.cluster.services
    /\ Owner("on_data_table_row_selected",
             [World EXCEPT !.detail_view = _toggle_fold_at_cursor(@, name)])
    /\ last_delivered' = None
    /\ UNCHANGED queue

on_worker_state_changed_w(w, event) ==
    IF event.name = "fetch_clusters"
    THEN _handle_clusters_fetch_result(w, event)
    ELSE IF event.name = "refresh_data"
         THEN _handle_cluster_data_result(w, event)
         ELSE w

\* The owner thread takes the oldest Worker.StateChanged message.
on_worker_state_changed ==
    /\ queue /= <<>>
    /\ Owner("on_worker_state_changed", on_worker_state_changed_w(World, Head(queue)))
    /\ queue' = Tail(queue)
    /\ last_delivered' =
          IF /\ Head(queue).name = "refresh_data"
             /\ Head(queue).state = "SUCCESS"
             /\ Head(queue).result /= None
          THEN Head(queue).result
          ELSE None

\* ------------------------------------------------------- specification
InitWith(Configured) ==
    /\ \E configured \in Configured :
          /\ app = [current_view |-> "LOADING", focus_panel |-> "CLUSTERS",
                    clusters |-> <<>>, selected_cluster |-> None, loading |-> TRUE,
                    insights_enabled |-> FALSE, _refresh_worker |-> None,
                    _configured_cluster |-> configured]
          /\ aws_clients = [cluster_name |-> configured]
    /\ cluster_list = [clusters |-> <<>>, selected_cluster_name |-> NoName,
                       show_cursor |-> TRUE]
    /\ detail_view = [cluster |-> None, _folded_services |-> {}]
    /\ service_list = None
    /\ task_list = None
    /\ metrics_fetcher = [_insights_enabled |-> None]
    /\ screen = [mounted |-> FALSE, loading_display |-> TRUE, main_display |-> TRUE,
                 status_message |-> "Initializing..."]
    /\ threads = <<>>
    /\ queue = <<>>
    /\ log = <<>>
    /\ insights_checked = FALSE
    /\ last_delivered = None
    /\ unit = None

Init == InitWith(ConfiguredNames)

Next ==
    \/ on_mount
    \/ _periodic_refresh
    \/ action_refresh
    \/ action_go_back
    \/ \E i \in DOMAIN cluster_list.clusters : on_cluster_selected(cluster_list.clusters[i])
    \/ on_cluster_deselected
    \/ on_worker_state_changed
    \/ \E i \in DOMAIN threads : _fetch_clusters_worker(i, ClusterLists)
    \/ \E i \in DOMAIN threads : worker_check_container_insights(i)
    \/ \E i \in DOMAIN threads : worker_fetch_cluster_state(i, ServiceSets)
    \/ \E i \in DOMAIN threads : worker_fetch_metrics_for_cluster(i)
    \/ \E i \in DOMAIN threads : worker_done(i)

\* The two-panel application: the refresh orchestrator and the cluster
\* selection, for every configured cluster name.
Spec == Init /\ [][Next]_vars

\* The two-panel application with the detail view's fold toggling, started
\* with no configured cluster.
InitFold == InitWith({NoName})

NextFold ==
    \/ Next
    \/ \E name \in ServiceNames : on_data_table_row_selected(name)

SpecFold == InitFold /\ [][NextFold]_vars

\* ================================================== three-panel application
\* src/ecs_monitor/ui/app.py: clusters, services and tasks panels.  The refresh
\* orchestrator, on_mount, the timer callback, action_refresh and the worker
\* functions are the same code as in the two-panel application and are the
\* operators above; what differs is below, named with a 3 where the name is
\* taken.  A Service is its name and its running-task count (what a refresh
\* changes about it); a snapshot's services are a set of them, one per name.
Service(n, running) == [name |-> n, running_count |-> running]

\* The service sets a three-panel snapshot can hold: between the two, "web"
\* is refreshed and "api" comes and goes.
ServiceSets3 ==
    {{Service("web", 1)},
     {Service("web", 2), Service("api", 1)}}

\* The cluster listings of the three-panel model (a failed listing gives the
\* empty list).
ClusterLists3 ==
    {<<ListedCluster("alpha")>>, <<ListedCluster("alpha"), ListedCluster("beta")>>}

ServiceNamed(services, n) == CHOOSE service \in services : service.name = n

_focus_services_panel(w) == [w EXCEPT !.app.focus_panel = "SERVICES"]

_focus_tasks_panel(w) == [w EXCEPT !.app.focus_panel = "TASKS"]

_update_service_list(w) ==
    IF w.app.selected_cluster /= None
    THEN [w EXCEPT !.service_list.services = w.app.selected_cluster.services,
                   !.service_list.selected_service_name =
                       IF w.app.selected_service /= None
                       THEN w.app.selected_service.name
                       ELSE NoName]
    ELSE [w EXCEPT !.service_list.services = {},
                   !.service_list.selected_service_name = NoName]

_update_task_list(w) ==
    IF /\ w.app.selected_service /= None
       /\ w.app.selected_cluster /= None
       /\ \E service \in w.app.selected_cluster.services :
              service.name = w.app.selected_service.name
    THEN LET service == ServiceNamed(w.app.selected_cluster.services,
                                     w.app.selected_service.name)
         IN  [w EXCEPT !.app.selected_service = service,
                       !.task_list.service = service]
    ELSE [w EXCEPT !.task_list.service = w.app.selected_service]

_select_cluster3(w, cluster, change_focus) ==
    LET w1 == [w EXCEPT !.app.selected_cluster = cluster,
                        !.cluster_list.selected_cluster_name = cluster.name,
                        !.cluster_list.show_cursor =
                            IF change_focus THEN FALSE ELSE @]
        w2 == _update_task_list([w1 EXCEPT !.app.selected_service = None])
        w3 == _fetch_cluster_data([w2 EXCEPT !.aws_clients.cluster_name = cluster.name])
    IN  IF change_focus THEN _focus_services_panel(w3) ELSE w3

_deselect_cluster3(w) ==
    _focus_clusters_panel(
        [w EXCEPT !.app.selected_cluster = None,
                  !.app.selected_service = None,
                  !.cluster_list.selected_cluster_name = NoName,
                  !.cluster_list.show_cursor = TRUE,
                  !.service_list.services = {},
                  !.service_list.selected_service_name = NoName,
                  !.task_list.service = None])

_select_service(w, service) ==
    _focus_tasks_panel(
        [w EXCEPT !.app.selected_service = service,
                  !.service_list.selected_service_name = service.name,
                  !.service_list.show_cursor = FALSE,
                  !.task_list.service = service])

_deselect_service(w) ==
    _focus_services_panel(
        [w EXCEPT !.app.selected_service = None,
                  !.service_list.selected_service_name = NoName,
                  !.service_list.show_cursor = TRUE,
                  !.task_list.service = None])

_handle_clusters_fetch_result3(w, event) ==
    IF event.state = "SUCCESS"
    THEN IF event.result /= None
         THEN LET w1 == [w EXCEPT !.app.clusters = event.result.list]
                  w2 == IF w1.app.loading THEN transition_to_main(w1) ELSE w1
                  w3 == [w2 EXCEPT !.cluster_list.clusters = w2.app.clusters]
                  configured == FirstNamed(w3.app.clusters, w3.app._configured_cluster)
                  w4 == IF /\ w3.app._configured_cluster /= NoName
                           /\ w3.app.selected_cluster = None
                           /\ configured /= None
                        THEN _select_cluster3(w3, configured, FALSE)
                        ELSE w3
              IN  _focus_clusters_panel(w4)
         ELSE w
    ELSE IF event.state = "ERROR"
         THEN notify(
                  IF w.app.loading
                  THEN [w EXCEPT !.screen.status_message = "Error"]
                  ELSE w,
                  "Error loading clusters")
         ELSE w

_handle_cluster_data_result3(w, event) ==
    IF event.state = "SUCCESS"
    THEN IF event.result /= None
         THEN _update_task_list(
                  _update_service_list([w EXCEPT !.app.selected_cluster = event.result]))
         ELSE w
    ELSE IF event.state = "ERROR"
         THEN notify(w, "Error loading data")
         ELSE w

on_worker_state_changed3_w(w, event) ==
    IF event.name = "fetch_clusters"
    THEN _handle_clusters_fetch_result3(w, event)
    ELSE IF event.name = "refresh_data"
         THEN _handle_cluster_data_result3(w, event)
         ELSE w

on_worker_state_changed3 ==
    /\ queue /= <<>>
    /\ Owner("on_worker_state_changed", on_worker_state_changed3_w(World, Head(queue)))
    /\ queue' = Tail(queue)
    /\ last_delivered' =
          IF /\ Head(queue).name = "refresh_data"
             /\ Head(queue).state = "SUCCESS"
             /\ Head(queue).result /= None
          THEN Head(queue).result
          ELSE None

action_go_back3_w(w) ==
    IF w.app.focus_panel = "TASKS" /\ w.app.selected_service /= None
    THEN _deselect_service(w)
    ELSE IF w.app.focus_panel = "SERVICES" /\ w.app.selected_cluster /= None
         THEN _deselect_cluster3(w)
         ELSE w

action_go_back3 ==
    /\ screen.mounted
    /\ Owner("action_go_back", action_go_back3_w(World))
    /\ last_delivered' = None
    /\ UNCHANGED queue

on_cluster_selected3(cluster) ==
    /\ screen.mounted /\ screen.main_display
    /\ cluster \in {cluster_list.clusters[i] : i \in DOMAIN cluster_list.clusters}
    /\ Owner("on_cluster_selected", _select_cluster3(World, cluster, TRUE))
    /\ last_delivered' = None
    /\ UNCHANGED queue

on_cluster_deselected3 ==
    /\ screen.mounted /\ screen.main_display
    /\ Owner("on_cluster_deselected", _deselect_cluster3(World))
    /\ last_delivered' = None
    /\ UNCHANGED queue

\* ServiceSelected, posted by the service list for one of the rows it shows.
on_service_selected(service) ==
    /\ screen.mounted /\ screen.main_display
    /\ service \in service_list.services
    /\ Owner("on_service_selected", _select_service(World, service))
    /\ last_delivered' = None
    /\ UNCHANGED queue

on_service_deselected_w(w) ==
    IF w.app.selected_service /= None THEN _deselect_service(w) ELSE _deselect_cluster3(w)

on_service_deselected ==
    /\ screen.mounted /\ screen.main_display
    /\ Owner("on_service_deselected", on_service_deselected_w(World))
    /\ last_delivered' = None
    /\ UNCHANGED queue

on_task_deselected ==
    /\ screen.mounted /\ screen.main_display
    /\ Owner("on_task_deselected", _deselect_service(World))
    /\ last_delivered' = None
    /\ UNCHANGED queue

Init3 ==
    /\ \E configured \in ConfiguredNames :
          /\ app = [current_view |-> "LOADING", focus_panel |-> "CLUSTERS",
                    clusters |-> <<>>, selected_cluster |-> None,
                    selected_service |-> None, loading |-> TRUE,
                    insights_enabled |-> FALSE, _refresh_worker |-> None,
                    _configured_cluster |-> configured]
          /\ aws_clients = [cluster_name |-> configured]
    /\ cluster_list = [clusters |-> <<>>, selected_cluster_name |-> NoName,
                       show_cursor |-> TRUE]
    /\ detail_view = None
    /\ service_list = [services |-> {}, selected_service_name |-> NoName,
                       show_cursor |-> TRUE]
    /\ task_list = [service |-> None]
    /\ metrics_fetcher = [_insights_enabled |-> None]
    /\ screen = [mounted |-> FALSE, loading_display |-> TRUE, main_display |-> TRUE,
                 status_message |-> "Initializing..."]
    /\ threads = <<>>
    /\ queue = <<>>
    /\ log = <<>>
    /\ insights_checked = FALSE
    /\ last_delivered = None
    /\ unit = None

Next3 ==
    \/ on_mount
    \/ _periodic_refresh
    \/ action_refresh
    \/ action_go_back3
    \/ \E i \in DOMAIN cluster_list.clusters : on_cluster_selected3(cluster_list.clusters[i])
    \/ on_cluster_deselected3
    \/ \E service \in service_list.services : on_service_selected(service)
    \/ on_service_deselected
    \/ on_task_deselected
    \/ on_worker_state_changed3
    \/ \E i \in DOMAIN threads : _fetch_clusters_worker(i, ClusterLists3)
    \/ \E i \in DOMAIN threads : worker_check_container_insights(i)
    \/ \E i \in DOMAIN threads : worker_fetch_cluster_state(i, ServiceSets3)
    \/ \E i \in DOMAIN threads : worker_fetch_metrics_for_cluster(i)
    \/ \E i \in DOMAIN threads : worker_done(i)

\* The three-panel application.
Spec3 == Init3 /\ [][Next3]_vars

\* =============================================================== claims
RunWorker(name) == <<"run_worker", name>>

Skip(name) == <<"skip", name>>

Notified(l) == \E i \in DOMAIN l : l[i][1] = "notify"

Dispatched(l) == \E i \in DOMAIN l : l[i][1] = "run_worker"

\* C1: in every reachable state of the two-panel app at most one fetch worker
\* (cluster-list fetch or cluster-detail fetch) is in flight, also when one
\* timer tick or one manual refresh asks for both fetches back to back.
C1_SingleFlight ==
    /\ Len(threads) <= 1
    /\ threads /= <<>> => is_running(World)

\* One tick asked for the list fetch and then for the detail fetch: the first
\* was dispatched and is in flight, the second was skipped.
C1_Witness ==
    /\ Len(threads) = 1
    /\ threads[1].name = "fetch_clusters"
    /\ app.selected_cluster /= None
    /\ log = <<RunWorker("fetch_clusters"), Skip("refresh_data")>>

RefreshRequest == _periodic_refresh \/ action_refresh

\* C2: a refresh request received while a fetch is in flight dispatches no new
\* worker and leaves the orchestrator's state and the in-flight worker as they
\* were; once the fetch has completed (its worker has returned, with a result or
\* after a failure) the next manual refresh, and the next timer tick in the
\* main view, dispatches a worker.
C2_SkipThenDispatch ==
    /\ [][(RefreshRequest /\ threads /= <<>>)
              => /\ threads' = threads
                 /\ app' = app
                 /\ queue' = queue
                 /\ ~Dispatched(log')]_vars
    /\ [][(/\ threads = <<>>
           /\ \/ action_refresh
              \/ _periodic_refresh /\ ~app.loading /\ app.current_view = "MAIN")
              => /\ Len(threads') = 1
                 /\ threads'[1] = NewThread("fetch_clusters")
                 /\ app'._refresh_worker = [name |-> "fetch_clusters", state |-> "RUNNING"]]_vars

\* A manual refresh arrived while the detail fetch was in flight: both of its
\* requests were skipped.
C2_Witness ==
    /\ Len(threads) = 1
    /\ threads[1].name = "refresh_data"
    /\ log = <<<<"notify", "Refreshing...">>, Skip("fetch_clusters"), Skip("refresh_data")>>

\* The owner thread handles the message of a fetch whose remote call raised.
FailedCycleHandled == on_worker_state_changed /\ Head(queue).raised

\* C3: when a fetch cycle fails (list_clusters or fetch_cluster_state raises),
\* the app's cluster list and its selected-cluster snapshot after the failed
\* cycle equal their values before it.
C3_FailureRetainsData ==
    [][FailedCycleHandled
          => /\ app'.clusters = app.clusters
             /\ app'.selected_cluster = app.selected_cluster]_vars

\* C4: when the topology fetch of a cycle raises, the failure is reported to
\* the presentation layer: handling the failed cycle raises a notification,
\* for the cluster-list fetch and for the cluster-detail fetch.
C4_FailureNotified ==
    [][FailedCycleHandled => Notified(log')]_vars

\* C5: if the very first cluster-list load fails, the app stays in the loading
\* view (loading = True, main container hidden) showing the error text; it does
\* not switch to the main view with an empty cluster list.
C5_FirstLoadFailureStaysLoading ==
    [][(FailedCycleHandled /\ Head(queue).name = "fetch_clusters" /\ app.loading)
          => /\ app'.loading
             /\ app'.current_view = "LOADING"
             /\ ~screen'.main_display
             /\ screen'.status_message = "Error"]_vars

\* The remote calls of one cluster-detail cycle, in the order of the worker.
CycleSteps == <<"check_container_insights", "fetch_cluster_state", "fetch_metrics_for_cluster">>

IsPrefix(s, t) == Len(s) <= Len(t) /\ \A i \in DOMAIN s : s[i] = t[i]

Made(steps, call) == \E i \in DOMAIN steps : steps[i] = call

\* The calls a cluster-detail cycle has made (in flight, or returned and its
\* message not handled yet) are in order, and a cycle whose topology fetch
\* raised has not fetched metrics and carries no snapshot.
CycleInOrder(c) ==
    /\ IsPrefix(c.steps, CycleSteps)
    /\ c.raised => /\ ~Made(c.steps, "fetch_metrics_for_cluster")
                    /\ c.result = None

\* C6: within one cluster-detail cycle the calls run in the order insights
\* check, topology fetch, metrics attach; if the topology fetch raises, metrics
\* attach is never invoked in that cycle and no snapshot is delivered (handling
\* the cycle's message leaves the selected cluster and the detail view alone).
C6_CycleOrder ==
    /\ [](/\ \A i \in DOMAIN threads :
                 threads[i].name = "refresh_data" => CycleInOrder(threads[i])
           /\ \A j \in DOMAIN queue :
                 queue[j].name = "refresh_data"
                     => /\ CycleInOrder(queue[j])
                        /\ ~queue[j].raised => queue[j].steps = CycleSteps)
    /\ [][(FailedCycleHandled /\ Head(queue).name = "refresh_data")
              => /\ app'.selected_cluster = app.selected_cluster
                 /\ detail_view' = detail_view
                 /\ last_delivered' = None]_vars

\* The message of a cycle whose topology fetch raised after the insights check
\* waits for the owner thread, while a snapshot delivered earlier is displayed.
C6_Witness ==
    /\ queue /= <<>>
    /\ Head(queue).name = "refresh_data"
    /\ Head(queue).raised
    /\ Head(queue).steps = <<"check_container_insights", "fetch_cluster_state">>
    /\ detail_view.cluster /= None

\* C7: the insights check (the statistics query) is issued only in the first
\* refresh cycle after the selected cluster changes: no check is issued when
\* one has been issued since the selection last changed.
C7_InsightsCheckedOncePerSelection ==
    [][(\E i \in DOMAIN threads : worker_check_container_insights(i))
          => ~insights_checked]_vars

\* C8: after a successful cluster-list refresh in which the name of the
\* selected cluster is absent from the new list, the cluster selection is null
\* and focus is on the CLUSTERS panel.
C8_AbsentClusterDeselected ==
    [][(/\ on_worker_state_changed
        /\ Head(queue).name = "fetch_clusters"
        /\ ~Head(queue).raised
        /\ app.selected_cluster /= None
        /\ SelectedName(app) \notin Names(Head(queue).result.list))
          => /\ app'.selected_cluster = None
             /\ app'.focus_panel = "CLUSTERS"]_vars

\* C9: in the three-panel app, after every successful cluster-detail delivery
\* the selected service is either null or the service object of the new
\* snapshot with the previously selected name; if that name is absent from the
\* new snapshot the service selection is cleared and focus moves up to the
\* SERVICES panel.
C9_ServiceReResolved ==
    [][(/\ on_worker_state_changed3
        /\ Head(queue).name = "refresh_data"
        /\ Head(queue).result /= None)
          => LET snapshot == Head(queue).result
                 before == app.selected_service
                 after == app'.selected_service
             IN  /\ \/ after = None
                    \/ /\ before /= None
                       /\ after \in snapshot.services
                       /\ after.name = before.name
                 /\ (/\ before /= None
                     /\ \A service \in snapshot.services : service.name /= before.name)
                        => /\ after = None
                           /\ app'.focus_panel = "SERVICES"]_vars

\* The snapshots a successful cluster-detail cycle can deliver, and the
\* Worker.StateChanged message that delivers one.
Snapshots == {[name |-> n, services |-> ss] : n \in ClusterNames, ss \in ServiceSets}

Delivery(snapshot) ==
    [name |-> "refresh_data", state |-> "SUCCESS", result |-> snapshot,
     raised |-> FALSE, steps |-> CycleSteps]

Reconciled(w) ==
    <<w.app.selected_cluster, w.app.focus_panel, w.detail_view._folded_services>>

\* C10: reconciliation is idempotent: from every reachable state, delivering
\* the same successful snapshot twice in a row leaves the same selected
\* cluster, focus panel and folded-service set after the second delivery as
\* after the first.
C10_ReconcileIdempotent ==
    \A snapshot \in Snapshots :
        LET first == on_worker_state_changed_w(World, Delivery(snapshot))
            second == on_worker_state_changed_w(first, Delivery(snapshot))
        IN  Reconciled(second) = Reconciled(first)

\* A snapshot has just been delivered to a detail view that holds a folded
\* service the snapshot no longer has.
C10_Witness ==
    /\ last_delivered /= None
    /\ app.selected_cluster = last_delivered
    /\ detail_view.cluster = last_delivered
    /\ detail_view._folded_services \ last_delivered.services /= {}

\* The name of the cluster the detail view displays.
DisplayedName(dv) == IF dv.cluster = None THEN NoName ELSE dv.cluster.name

\* C11: the folded-service set is left unchanged by every refresh delivery (of
\* the cluster that is displayed); it changes only by an explicit toggle-fold
\* action, and it is emptied when the displayed cluster is deselected or
\* switched to a different cluster.
C11_FoldedFrame ==
    [][/\ (on_worker_state_changed
            /\ DisplayedName(detail_view') = DisplayedName(detail_view))
          => detail_view'._folded_services = detail_view._folded_services
       /\ detail_view'._folded_services /= detail_view._folded_services
          => \/ \E name \in ServiceNames : on_data_table_row_selected(name)
             \/ detail_view'._folded_services = {}
       /\ DisplayedName(detail_view') /= DisplayedName(detail_view)
          => detail_view'._folded_services = {}]_vars

\* C12: selecting a cluster (by the user, or automatically on the initial
\* load) sets focus to the detail level; a deselect, or escape on the DETAIL
\* panel, moves focus to the CLUSTERS panel and clears the cluster selection;
\* escape on the CLUSTERS panel changes neither selection nor focus.
C12_FocusFollowsSelection ==
    /\ [][(\E i \in DOMAIN cluster_list.clusters :
                on_cluster_selected(cluster_list.clusters[i]))
              => /\ app'.focus_panel = "DETAIL"
                 /\ app'.selected_cluster \in
                        {cluster_list.clusters[i] : i \in DOMAIN cluster_list.clusters}]_vars
    /\ [][(/\ on_worker_state_changed
           /\ Head(queue).name = "fetch_clusters"
           /\ SelectedName(app') /= SelectedName(app))
              => app'.focus_panel = "DETAIL"]_vars
    /\ [][(\/ on_cluster_deselected
           \/ action_go_back /\ app.focus_panel = "DETAIL" /\ app.selected_cluster /= None)
              => /\ app'.selected_cluster = None
                 /\ app'.focus_panel = "CLUSTERS"
                 /\ cluster_list'.selected_cluster_name = NoName
                 /\ detail_view'.cluster = None]_vars
    /\ [][(action_go_back /\ app.focus_panel = "CLUSTERS")
              => /\ app' = app
                 /\ cluster_list' = cluster_list
                 /\ detail_view' = detail_view]_vars

\* A cluster had been selected (its cycle checked the insights) and has been
\* deselected: nothing is selected or displayed, focus is on the cluster list.
C12_Witness ==
    /\ metrics_fetcher._insights_enabled /= None
    /\ app.clusters /= <<>>
    /\ app.selected_cluster = None
    /\ app.focus_panel = "CLUSTERS"
    /\ detail_view.cluster = None

\* C13: a manual refresh request and a periodic timer tick take the identical
\* path: from every application state (the initial loading state included)
\* both dispatch the same fetch workers, and skip the same requests.
C13_ManualEqualsTimer ==
    screen.mounted
        => LET tick == _periodic_refresh_w(World)
               manual == action_refresh_w(World)
           IN  /\ tick.threads = manual.threads
               /\ tick.app._refresh_worker = manual.app._refresh_worker

\* ==================================================== task-definition cache
\* TaskDefinitionCache (grapes.aws.fetcher): a dict from ARN to (data,
\* timestamp) and a TTL.  Time is counted in seconds from the construction.
IdleApp ==
    /\ app = None /\ cluster_list = None /\ detail_view = None
    /\ service_list = None /\ task_list = None /\ aws_clients = None
    /\ metrics_fetcher = None /\ screen = None /\ threads = <<>>
    /\ queue = <<>> /\ log = <<>> /\ insights_checked = FALSE
    /\ last_delivered = None

CacheKeys == {"arn:task-def:1", "arn:task-def:2"}
CacheValues == {"family-a", "family-b"}
\* the TTLs (ttl_seconds) the cache is constructed with
CacheTtls == {0, 1, 2}
\* the clock stops here
MaxTime == 3

NotFound == "not-found"

\* Faulty variant: an entry is still served at the instant its TTL ends.
cache_fresh_inclusive(entry, now, ttl) == now - entry.created_at <= ttl

\* now - created_at < ttl
cache_fresh(entry, now, ttl) == now - entry.created_at < ttl

\* Faulty variant: setting a key that is stored keeps its old timestamp.
cache_set_keep_timestamp(cache, key, value, now) ==
    IF key \in DOMAIN cache
    THEN [cache EXCEPT ![key].value = value]
    ELSE [k \in DOMAIN cache \cup {key} |->
             IF k = key THEN [value |-> value, created_at |-> now] ELSE cache[k]]

\* set(key, value): store the value with the creation timestamp.
cache_set(cache, key, value, now) ==
    [k \in DOMAIN cache \cup {key} |->
        IF k = key THEN [value |-> value, created_at |-> now] ELSE cache[k]]

\* get(key): the value while it is fresh; else the key is evicted and the
\* result is not-found.
cache_get(cache, key, now, ttl) ==
    IF key \in DOMAIN cache
    THEN IF cache_fresh(cache[key], now, ttl)
         THEN [cache |-> cache, result |-> cache[key].value]
         ELSE [cache |-> [k \in DOMAIN cache \ {key} |-> cache[k]],
               result |-> NotFound]
    ELSE [cache |-> cache, result |-> NotFound]

\* unit here: the cache (_ttl, _cache), the clock, and as history the last
\* set of every key and the call that just ran with what it returned.
CacheSet(key, value) ==
    /\ unit' = [unit EXCEPT
           !._cache = cache_set(@, key, value, unit.now),
           !.last_set = [k \in DOMAIN @ \cup {key} |->
                            IF k = key THEN [value |-> value, at |-> unit.now]
                            ELSE @[k]],
           !.call = <<"set", key>>,
           !.returned = NotFound]
    /\ UNCHANGED appVars

CacheGet(key) ==
    /\ LET got == cache_get(unit._cache, key, unit.now, unit._ttl)
       IN  unit' = [unit EXCEPT !._cache = got.cache,
                                !.call = <<"get", key>>,
                                !.returned = got.result]
    /\ UNCHANGED appVars

CacheClock ==
    /\ unit.now < MaxTime
    /\ unit' = [unit EXCEPT !.now = @ + 1, !.call = <<"clock">>, !.returned = NotFound]
    /\ UNCHANGED appVars

InitCache ==
    /\ IdleApp
    /\ \E ttl \in CacheTtls :
          unit = [_ttl |-> ttl, _cache |-> <<>>, now |-> 0, last_set |-> <<>>,
                  call |-> <<"init">>, returned |-> NotFound]

NextCache ==
    \/ \E key \in CacheKeys, value \in CacheValues : CacheSet(key, value)
    \/ \E key \in CacheKeys : CacheGet(key)
    \/ CacheClock

SpecCache == InitCache /\ [][NextCache]_vars

\* The last set of the key happened less than the TTL ago.
WithinTtl(key) ==
    /\ key \in DOMAIN unit.last_set
    /\ unit.now - unit.last_set[key].at < unit._ttl

\* C14: cache round-trip: set(k, v) followed by get(k) before the TTL has
\* elapsed returns v (the value of the last set of k), and get of a key that
\* was never set returns not-found.
C14_CacheRoundTrip ==
    [][\A key \in CacheKeys :
          CacheGet(key)
              => /\ WithinTtl(key) => unit'.returned = unit.last_set[key].value
                 /\ key \notin DOMAIN unit.last_set => unit'.returned = NotFound]_vars

\* A key set twice was read one second or more after its last set, within
\* the TTL, and the read returned the second value.
C14_Witness ==
    \E key \in CacheKeys :
        /\ unit.call = <<"get", key>>
        /\ key \in DOMAIN unit.last_set
        /\ unit.last_set[key].at > 0
        /\ unit.now > unit.last_set[key].at
        /\ unit.returned = unit.last_set[key].value

\* C15: cache expiry: get(k) returns the stored value exactly when
\* now - created_at < ttl; otherwise it returns not-found and k is no longer
\* in the cache's internal state, so with ttl = 0 every read misses; no entry
\* is removed other than by such a read.
C15_CacheExpiry ==
    /\ [][\A key \in CacheKeys :
              (CacheGet(key) /\ key \in DOMAIN unit.last_set)
                  => IF WithinTtl(key)
                     THEN /\ unit'.returned = unit.last_set[key].value
                          /\ unit'._cache = unit._cache
                          /\ unit._cache[key].created_at = unit.last_set[key].at
                     ELSE /\ unit'.returned = NotFound
                          /\ key \notin DOMAIN unit'._cache]_vars
    /\ [][\A key \in CacheKeys :
              (CacheGet(key) /\ unit._ttl = 0) => unit'.returned = NotFound]_vars
    /\ [][\A key \in DOMAIN unit._cache :
              key \notin DOMAIN unit'._cache
                  => CacheGet(key) /\ ~WithinTtl(key)]_vars

\* With a TTL above zero, a key that was set has been read after its TTL
\* ended: the read missed and the key is gone from the cache.
C15_Witness ==
    \E key \in CacheKeys :
        /\ unit._ttl > 0
        /\ unit.call = <<"get", key>>
        /\ key \in DOMAIN unit.last_set
        /\ unit.now - unit.last_set[key].at = unit._ttl
        /\ key \notin DOMAIN unit._cache
        /\ unit.returned = NotFound

\* ---------------------------------------------------------------------
\* Metric identifiers.  A string is a sequence of one-character strings.
\* ---------------------------------------------------------------------

LowerLetters == {"a", "c", "e", "m", "p", "s", "u", "v"}
UpperLetters == {"A", "M"}
Digits == {"1", "7"}
Alnum == LowerLetters \cup UpperLetters \cup Digits

\* str.lower() on one character.
to_lower(c) ==
    CASE c = "A" -> "a"
      [] c = "M" -> "m"
      [] OTHER -> c

\* re.sub(r"[^a-zA-Z0-9]", "_", s)
re_sub_non_alnum(s) == [i \in DOMAIN s |-> IF s[i] \in Alnum THEN s[i] ELSE "_"]

lower(s) == [i \in DOMAIN s |-> to_lower(s[i])]

\* Faulty variant: the identifier is returned without the "m_" prefix.
sanitize_metric_id_no_prefix(s) ==
    lower(re_sub_non_alnum(s))

sanitize_metric_id(s) ==
    LET sanitized == lower(re_sub_non_alnum(s))
    IN  IF Len(sanitized) > 0 /\ sanitized[1] \notin LowerLetters
        THEN <<"m", "_">> \o sanitized
        ELSE sanitized

\* The characters a caller types, and the longest string typed.
TypedChars == {"a", "M", "7", "-", "_"}
MaxLen == 3

IdsType(c) ==
    /\ Len(unit.s) < MaxLen
    /\ unit' = [s |-> Append(unit.s, c), sanitized |-> <<>>, call |-> "type"]
    /\ UNCHANGED appVars

IdsSanitize ==
    /\ unit.call /= "sanitize"
    /\ unit' = [unit EXCEPT !.sanitized = sanitize_metric_id(unit.s),
                             !.call = "sanitize"]
    /\ UNCHANGED appVars

InitIds ==
    /\ IdleApp
    /\ unit = [s |-> <<>>, sanitized |-> <<>>, call |-> "init"]

NextIds ==
    \/ \E c \in TypedChars : IdsType(c)
    \/ IdsSanitize

SpecIds == InitIds /\ [][NextIds]_vars

\* C16: sanitize_metric_id is idempotent, its output contains only lowercase
\* letters, digits and underscores, every non-empty output starts with a
\* letter, and the empty string maps to the empty string.
C16_SanitizeContract ==
    unit.call = "sanitize"
        => /\ sanitize_metric_id(unit.sanitized) = unit.sanitized
           /\ \A i \in DOMAIN unit.sanitized :
                  unit.sanitized[i] \in LowerLetters \cup Digits \cup {"_"}
           /\ Len(unit.sanitized) > 0 => unit.sanitized[1] \in LowerLetters
           /\ unit.s = <<>> => unit.sanitized = <<>>

\* A string starting with a digit and holding an uppercase letter and a
\* dash has been sanitized: the output got the prefix.
C16_Witness ==
    /\ unit.call = "sanitize"
    /\ unit.s = <<"7", "M", "-">>
    /\ unit.sanitized = <<"m", "_", "7", "m", "_">>

\* ---------------------------------------------------------------------
\* MetricsFetcher.fetch_metrics_for_cluster, one step per CloudWatch call.
\* ---------------------------------------------------------------------

\* Queries per GetMetricData call (500 in the program), scaled down so that
\* one fetch spans several batches.
MAX_METRICS_PER_CALL == 3

Container(name) == [name |-> name, cpu_used |-> None, memory_used |-> None]

Task(short_id, status, containers) ==
    [short_id |-> short_id, status |-> status, containers |-> containers]

MetricService(name, tasks) ==
    [name |-> name, tasks |-> tasks, cpu_used |-> None, memory_used |-> None]

\* Names are strings of letters, digits, dashes and underscores.
MetricNames == {<<"a", "-", "m">>, <<"a", "_", "m">>, <<"e">>}
TaskStatuses == {"RUNNING", "STOPPED"}
ShortIds == <<(<<"1">>), (<<"7">>)>>

ContainerMenus ==
    { <<Container(<<"e">>)>>,
      <<Container(<<"a", "-", "m">>), Container(<<"a", "_", "m">>)>> }

\* A service has no task or one task.
TaskMenus(short_id) ==
    {<<>>} \cup { <<Task(short_id, status, containers)>> :
                      status \in TaskStatuses, containers \in ContainerMenus }

\* Clusters of up to two services with distinct names.
MetricClusters ==
    { [name |-> "alpha", services |-> services] :
        services \in
            {<<>>}
            \cup { <<MetricService(n, tasks)>> :
                       n \in MetricNames, tasks \in TaskMenus(ShortIds[1]) }
            \cup { <<MetricService(n[1], t1), MetricService(n[2], t2)>> :
                       n \in {p \in MetricNames \X MetricNames : p[1] /= p[2]},
                       t1 \in TaskMenus(ShortIds[1]),
                       t2 \in TaskMenus(ShortIds[2]) } }

Str_svc_cpu == <<"s", "v", "c", "_", "c", "p", "u", "_">>
Str_svc_mem == <<"s", "v", "c", "_", "m", "e", "m", "_">>
Str_cpu == <<"c", "p", "u", "_">>
Str_mem == <<"m", "e", "m", "_">>

Query(id, metric, dimensions) ==
    [Id |-> id, MetricName |-> metric, Dimensions |-> dimensions]

\* Faulty variant: the memory query of a service is left out.
_build_service_metric_queries_cpu_only(cluster_name, services) ==
    [k \in 1..Len(services) |->
        Query(sanitize_metric_id(Str_svc_cpu \o services[k].name),
              "CPUUtilization", <<cluster_name, services[k].name>>)]

_build_service_metric_queries(cluster_name, services) ==
    [k \in 1..(2 * Len(services)) |->
        LET service == services[(k + 1) \div 2]
        IN  IF k % 2 = 1
            THEN Query(sanitize_metric_id(Str_svc_cpu \o service.name),
                       "CPUUtilization", <<cluster_name, service.name>>)
            ELSE Query(sanitize_metric_id(Str_svc_mem \o service.name),
                       "MemoryUtilization", <<cluster_name, service.name>>)]

RECURSIVE Flatten(_)
Flatten(seqs) ==
    IF Len(seqs) = 0 THEN <<>> ELSE Head(seqs) \o Flatten(Tail(seqs))

\* Faulty variant: the containers of every task are collected.
containers_to_fetch_any_status(cluster) ==
    Flatten([si \in 1..Len(cluster.services) |->
        Flatten([ti \in 1..Len(cluster.services[si].tasks) |->
            [ci \in 1..Len(cluster.services[si].tasks[ti].containers) |->
                <<si, ti, ci>>]])])

\* The (task, container) pairs of RUNNING tasks, as positions in the cluster.
containers_to_fetch(cluster) ==
    Flatten([si \in 1..Len(cluster.services) |->
        Flatten([ti \in 1..Len(cluster.services[si].tasks) |->
            IF cluster.services[si].tasks[ti].status = "RUNNING"
            THEN [ci \in 1..Len(cluster.services[si].tasks[ti].containers) |->
                     <<si, ti, ci>>]
            ELSE <<>>])])

TaskAt(cluster, path) == cluster.services[path[1]].tasks[path[2]]
ContainerAt(cluster, path) == TaskAt(cluster, path).containers[path[3]]

cpu_id(task, container) ==
    sanitize_metric_id(Str_cpu \o task.short_id \o <<"_">> \o container.name)

mem_id(task, container) ==
    sanitize_metric_id(Str_mem \o task.short_id \o <<"_">> \o container.name)

_build_container_metric_queries(cluster, containers) ==
    [k \in 1..(2 * Len(containers)) |->
        LET task == TaskAt(cluster, containers[(k + 1) \div 2])
            container == ContainerAt(cluster, containers[(k + 1) \div 2])
        IN  IF k % 2 = 1
            THEN Query(cpu_id(task, container), "CpuUtilized",
                       <<cluster.name, task.short_id, container.name>>)
            ELSE Query(mem_id(task, container), "MemoryUtilized",
                       <<cluster.name, task.short_id, container.name>>)]

\* The floats CloudWatch reports, in tenths: 12.5 and 40.6 percent for a
\* service, 0.3 CPU units and 128.7 MiB for a container.
Reading(metric) ==
    CASE metric = "CPUUtilization" -> 125
      [] metric = "MemoryUtilization" -> 406
      [] metric = "CpuUtilized" -> 3
      [] OTHER -> 1287

Metric(metric, dimensions) ==
    [MetricName |-> metric, Dimensions |-> dimensions, tenths |-> Reading(metric)]

\* The most recent value CloudWatch holds for the metric a query addresses.
Datapoint(query) == Metric(query.MetricName, query.Dimensions)

\* int(mem_value): the fractional part is cut off.
int(value) == [value EXCEPT !.tenths = (@ \div 10) * 10]

\* A response with a value for every query, with empty Values for every
\* query, or without results; or an exception.
BatchOutcomes == {"values", "no_values", "no_results", "raise"}

\* dict.get
get(metrics, id) == IF id \in DOMAIN metrics THEN metrics[id] ELSE None

\* One pass of the loop of _fetch_metrics_batched over a batch.
batch_results(results, batch, outcome) ==
    LET ids == {batch[k].Id : k \in DOMAIN batch}
        last(id) == CHOOSE k \in DOMAIN batch :
                        /\ batch[k].Id = id
                        /\ \A j \in DOMAIN batch : j > k => batch[j].Id /= id
    IN  IF outcome = "no_results"
        THEN results
        ELSE [id \in DOMAIN results \cup ids |->
                IF id \in ids
                THEN IF outcome = "values" THEN Datapoint(batch[last(id)]) ELSE None
                ELSE results[id]]

\* Faulty variant: a value is only replaced when the fetch brought one.
_attach_metrics_to_services_keep_old(services, metrics) ==
    [k \in DOMAIN services |->
        LET cpu_value == get(metrics, sanitize_metric_id(Str_svc_cpu \o services[k].name))
            mem_value == get(metrics, sanitize_metric_id(Str_svc_mem \o services[k].name))
        IN  [services[k] EXCEPT
                !.cpu_used = IF cpu_value /= None THEN cpu_value ELSE @,
                !.memory_used = IF mem_value /= None THEN mem_value ELSE @]]

_attach_metrics_to_services(services, metrics) ==
    [k \in DOMAIN services |->
        [services[k] EXCEPT
            !.cpu_used = get(metrics, sanitize_metric_id(Str_svc_cpu \o services[k].name)),
            !.memory_used = get(metrics, sanitize_metric_id(Str_svc_mem \o services[k].name))]]

_attach_metrics_to_containers(cluster, containers, metrics) ==
    LET fetched == {containers[k] : k \in DOMAIN containers}
        attach(task, container) ==
            LET cpu_value == get(metrics, cpu_id(task, container))
                mem_value == get(metrics, mem_id(task, container))
            IN  [container EXCEPT
                    !.cpu_used = cpu_value,
                    !.memory_used = IF mem_value /= None THEN int(mem_value) ELSE None]
    IN  [cluster EXCEPT !.services =
            [si \in DOMAIN cluster.services |->
                [cluster.services[si] EXCEPT !.tasks =
                    [ti \in DOMAIN cluster.services[si].tasks |->
                        [cluster.services[si].tasks[ti] EXCEPT !.containers =
                            [ci \in DOMAIN cluster.services[si].tasks[ti].containers |->
                                IF <<si, ti, ci>> \in fetched
                                THEN attach(cluster.services[si].tasks[ti],
                                            cluster.services[si].tasks[ti].containers[ci])
                                ELSE cluster.services[si].tasks[ti].containers[ci]]]]]]]

\* _report_progress: TRUE when an exception of the callback leaves it.
_report_progress(callback) == callback = "raises"

\* The messages the callback has been given.
Progress(u, message) ==
    IF u._progress_callback = "unset" THEN u.progress ELSE Append(u.progress, message)

\* fetch_metrics_for_cluster up to the first GetMetricData call of
\* _fetch_service_metrics (or past it when the cluster has no services).
fetch_metrics_for_cluster ==
    /\ unit.pc = "call"
    /\ IF Len(unit.cluster.services) = 0
       THEN unit' = [unit EXCEPT !.pc = "insights_enabled"]
       ELSE IF _report_progress(unit._progress_callback)
       THEN unit' = [unit EXCEPT !.pc = "raised",
                                 !.progress = Progress(unit, "services")]
       ELSE unit' = [unit EXCEPT
                        !.pc = "service_batches",
                        !.progress = Progress(unit, "services"),
                        !.metric_queries =
                            _build_service_metric_queries(unit.cluster.name,
                                                          unit.cluster.services),
                        !.i = 0,
                        !.results = <<>>]
    /\ UNCHANGED appVars

\* Faulty variant: the slice takes one query more than the cap.
batch_end_overlong(i, n) ==
    IF i + MAX_METRICS_PER_CALL + 1 < n THEN i + MAX_METRICS_PER_CALL + 1 ELSE n

\* The end of the slice metric_queries[i : i + MAX_METRICS_PER_CALL] of a
\* list of n queries.
batch_end(i, n) ==
    IF i + MAX_METRICS_PER_CALL < n THEN i + MAX_METRICS_PER_CALL ELSE n

\* One GetMetricData call of _fetch_metrics_batched; after the last batch the
\* results are attached.
get_metric_data(outcome) ==
    /\ unit.pc \in {"service_batches", "container_batches"}
    /\ LET last == batch_end(unit.i, Len(unit.metric_queries))
           batch == SubSeq(unit.metric_queries, unit.i + 1, last)
           results == batch_results(unit.results, batch, outcome)
           done == last = Len(unit.metric_queries)
       IN  unit' = [unit EXCEPT
                !.i = last,
                !.results = results,
                !.issued = Append(@, [phase |-> unit.pc, batch |-> batch,
                                      outcome |-> outcome]),
                !.cluster =
                    IF ~done THEN @
                    ELSE IF unit.pc = "service_batches"
                    THEN [@ EXCEPT !.services =
                             _attach_metrics_to_services(@, results)]
                    ELSE _attach_metrics_to_containers(@, unit.containers, results),
                !.pc =
                    IF ~done THEN @
                    ELSE IF unit.pc = "service_batches"
                    THEN "insights_enabled" ELSE "returned"]
    /\ UNCHANGED appVars

InsightsOutcomes == {"datapoints", "no_datapoints", "raise"}

\* The insights_enabled property (with check_container_insights when the flag
\* is not cached) and _fetch_container_metrics up to its first call.
insights_enabled(outcome) ==
    /\ unit.pc = "insights_enabled"
    /\ outcome \in IF unit._insights_enabled = None
                   THEN InsightsOutcomes ELSE {"cached"}
    /\ LET checked == unit._insights_enabled = None
           enabled == IF checked
                      THEN PyBool(check_container_insights(outcome))
                      ELSE unit._insights_enabled
           after_check == [unit EXCEPT
                              !.progress = IF checked THEN Progress(unit, "insights")
                                           ELSE @]
           containers == containers_to_fetch(unit.cluster)
       IN  IF checked /\ _report_progress(unit._progress_callback)
           THEN unit' = [after_check EXCEPT !.pc = "raised"]
           ELSE IF enabled = PyBool(TRUE) /\ Len(containers) > 0
                   /\ _report_progress(unit._progress_callback)
           THEN unit' = [after_check EXCEPT
                    !._insights_enabled = enabled,
                    !.progress = Progress(after_check, "containers"),
                    !.pc = "raised"]
           ELSE IF enabled = PyBool(TRUE) /\ Len(containers) > 0
           THEN unit' = [after_check EXCEPT
                    !._insights_enabled = enabled,
                    !.progress = Progress(after_check, "containers"),
                    !.pc = "container_batches",
                    !.containers = containers,
                    !.metric_queries =
                        _build_container_metric_queries(unit.cluster, containers),
                    !.i = 0,
                    !.results = <<>>]
           ELSE unit' = [after_check EXCEPT
                    !._insights_enabled = enabled,
                    !.pc = "returned"]
    /\ UNCHANGED appVars

\* What an earlier fetch may have left on the services and containers.
EarlierValue == [earlier_cycle |-> TRUE]

WithEarlier(cluster, value) ==
    [cluster EXCEPT !.services =
        [si \in DOMAIN cluster.services |->
            [cluster.services[si] EXCEPT
                !.cpu_used = value,
                !.memory_used = value,
                !.tasks =
                    [ti \in DOMAIN cluster.services[si].tasks |->
                        [cluster.services[si].tasks[ti] EXCEPT !.containers =
                            [ci \in DOMAIN cluster.services[si].tasks[ti].containers |->
                                [cluster.services[si].tasks[ti].containers[ci] EXCEPT
                                    !.cpu_used = value,
                                    !.memory_used = value]]]]]]]

ProgressCallbacks == {"unset", "appends", "raises"}

InitMetrics ==
    /\ IdleApp
    /\ \E cluster \in MetricClusters,
          flag \in {None, PyBool(TRUE), PyBool(FALSE)},
          callback \in ProgressCallbacks,
          earlier \in {None, EarlierValue} :
          unit = [cluster |-> WithEarlier(cluster, earlier),
                  _insights_enabled |-> flag, _progress_callback |-> callback,
                  progress |-> <<>>, pc |-> "call",
                  metric_queries |-> <<>>, i |-> 0, results |-> <<>>,
                  containers |-> <<>>, issued |-> <<>>]

NextMetrics ==
    \/ fetch_metrics_for_cluster
    \/ \E outcome \in BatchOutcomes : get_metric_data(outcome)
    \/ \E outcome \in InsightsOutcomes \cup {"cached"} : insights_enabled(outcome)

SpecMetrics == InitMetrics /\ [][NextMetrics]_vars

\* The value a service or a container shows is no-data or the value of its
\* own metric.
OwnValue(value, metric, dimensions) ==
    value \in {None, EarlierValue,
               Metric(metric, dimensions), int(Metric(metric, dimensions))}

\* C17: within one batched metrics fetch the queries of distinct services
\* and of distinct (task, container) pairs have distinct sanitized CPU and
\* memory query ids, so every service and container is given the result of
\* its own query.
C17_DistinctQueryIds ==
    /\ \A j, k \in DOMAIN unit.metric_queries :
          j /= k => unit.metric_queries[j].Id /= unit.metric_queries[k].Id
    /\ \A si \in DOMAIN unit.cluster.services :
          LET service == unit.cluster.services[si]
          IN  /\ OwnValue(service.cpu_used, "CPUUtilization",
                          <<unit.cluster.name, service.name>>)
              /\ OwnValue(service.memory_used, "MemoryUtilization",
                          <<unit.cluster.name, service.name>>)
              /\ \A ti \in DOMAIN service.tasks :
                    \A ci \in DOMAIN service.tasks[ti].containers :
                        LET task == service.tasks[ti]
                            container == task.containers[ci]
                        IN  /\ OwnValue(container.cpu_used, "CpuUtilized",
                                        <<unit.cluster.name, task.short_id,
                                          container.name>>)
                            /\ OwnValue(container.memory_used, "MemoryUtilized",
                                        <<unit.cluster.name, task.short_id,
                                          container.name>>)

\* The metrics addressed by the GetMetricData calls made so far in a phase
\* of the fetch.
Issued(phase) ==
    UNION { { Datapoint(unit.issued[b].batch[k]) : k \in DOMAIN unit.issued[b].batch } :
              b \in {x \in DOMAIN unit.issued : unit.issued[x].phase = phase} }

\* The positions of the containers of RUNNING tasks.
RunningContainers ==
    UNION { UNION { { <<si, ti, ci>> :
                        ci \in DOMAIN unit.cluster.services[si].tasks[ti].containers } :
                    ti \in { t \in DOMAIN unit.cluster.services[si].tasks :
                               unit.cluster.services[si].tasks[t].status = "RUNNING" } } :
            si \in DOMAIN unit.cluster.services }

ContainerMetric(metric, path) ==
    Metric(metric, <<unit.cluster.name, TaskAt(unit.cluster, path).short_id,
                     ContainerAt(unit.cluster, path).name>>)

ServiceMetric(metric, service) ==
    Metric(metric, <<unit.cluster.name, service.name>>)

\* C18: for a cluster in which no task is RUNNING no per-container query is
\* issued, whatever the insights flag; a container query is built and issued
\* only for a container of a RUNNING task.
C18_ContainerQueriesOnlyForRunning ==
    /\ RunningContainers = {}
          => unit.pc /= "container_batches" /\ Issued("container_batches") = {}
    /\ unit.pc = "container_batches"
          => \A k \in DOMAIN unit.metric_queries :
                \E path \in RunningContainers :
                    \E metric \in {"CpuUtilized", "MemoryUtilized"} :
                        Datapoint(unit.metric_queries[k]) = ContainerMetric(metric, path)
    /\ \A m \in Issued("container_batches") :
          \E path \in RunningContainers : m = ContainerMetric(m.MetricName, path)

\* The fetch returned for a cluster with insights enabled whose two services
\* each have a STOPPED task: four service queries and no container query.
C18_Witness ==
    /\ unit.pc = "returned"
    /\ unit._insights_enabled = PyBool(TRUE)
    /\ Len(unit.cluster.services) = 2
    /\ \A si \in 1..2 :
          /\ Len(unit.cluster.services[si].tasks) = 1
          /\ unit.cluster.services[si].tasks[1].status = "STOPPED"
    /\ Cardinality(Issued("service_batches")) = 4
    /\ Issued("container_batches") = {}

\* C19: fetch_metrics_for_cluster always issues the service-level CPU and
\* memory query pair of every service; the per-container query pair of a
\* container of a RUNNING task is issued if and only if insights is enabled,
\* and no container query is issued when it is not.
C19_ServiceAlwaysContainersIffInsights ==
    unit.pc = "returned"
        => /\ \A si \in DOMAIN unit.cluster.services :
                 /\ ServiceMetric("CPUUtilization", unit.cluster.services[si])
                        \in Issued("service_batches")
                 /\ ServiceMetric("MemoryUtilization", unit.cluster.services[si])
                        \in Issued("service_batches")
           /\ \A path \in RunningContainers :
                 /\ ContainerMetric("CpuUtilized", path) \in Issued("container_batches")
                        <=> unit._insights_enabled = PyBool(TRUE)
                 /\ ContainerMetric("MemoryUtilized", path) \in Issued("container_batches")
                        <=> unit._insights_enabled = PyBool(TRUE)
           /\ unit._insights_enabled /= PyBool(TRUE)
                 => Issued("container_batches") = {}

\* The fetch returned for two services with RUNNING tasks after the insights
\* check found no datapoints: four service queries and no container query.
C19_Witness ==
    /\ unit.pc = "returned"
    /\ unit._insights_enabled = PyBool(FALSE)
    /\ Len(unit.cluster.services) = 2
    /\ Cardinality(RunningContainers) >= 2
    /\ Cardinality(Issued("service_batches")) = 4
    /\ Issued("container_batches") = {}

\* The value an entity ended up with for the metric a query addresses.
Attached(query) ==
    IF query.MetricName \in {"CPUUtilization", "MemoryUtilization"}
    THEN LET service == CHOOSE sv \in {unit.cluster.services[si] :
                                         si \in DOMAIN unit.cluster.services} :
                            sv.name = query.Dimensions[2]
         IN  IF query.MetricName = "CPUUtilization"
             THEN service.cpu_used ELSE service.memory_used
    ELSE LET path == CHOOSE pt \in RunningContainers :
                         ContainerMetric(query.MetricName, pt) = Datapoint(query)
         IN  IF query.MetricName = "CpuUtilized"
             THEN ContainerAt(unit.cluster, path).cpu_used
             ELSE ContainerAt(unit.cluster, path).memory_used

\* C20: when a batched metrics call raises, every query of that batch
\* resolves to no-data (null cpu/memory on the entity it was made for), the
\* results of the other batches of the same fetch are kept, and the fetch
\* returns normally.
C20_FailedBatchIsNoData ==
    unit.pc = "returned"
        => \A b \in DOMAIN unit.issued :
              unit.issued[b].outcome = "raise"
                  => /\ \A k \in DOMAIN unit.issued[b].batch :
                           Attached(unit.issued[b].batch[k]) = None
                     /\ \A b2 \in DOMAIN unit.issued :
                           \A k \in DOMAIN unit.issued[b2].batch :
                               unit.issued[b2].outcome = "values"
                                   => Attached(unit.issued[b2].batch[k]) /= None

\* The values the calls of a phase of this fetch reported for a query id.
Reported(id, phase) ==
    UNION { { Datapoint(unit.issued[b].batch[k]) :
                k \in { x \in DOMAIN unit.issued[b].batch :
                          unit.issued[b].batch[x].Id = id } } :
            b \in { x \in DOMAIN unit.issued :
                      /\ unit.issued[x].phase = phase
                      /\ unit.issued[x].outcome = "values" } }

\* C21: after fetch_metrics_for_cluster every service's cpu_used and
\* memory_used, and with insights enabled every RUNNING-task container's, is
\* the value reported in this fetch for its own query id, or null; without a
\* reported value (no datapoints, or the id missing from the response) it is
\* null, never a default number or the value of an earlier cycle.
C21_ValuesReplacedWholesale ==
    unit.pc = "returned"
        => /\ \A si \in DOMAIN unit.cluster.services :
                 LET service == unit.cluster.services[si]
                 IN  /\ service.cpu_used \in {None} \cup
                            Reported(sanitize_metric_id(Str_svc_cpu \o service.name),
                                     "service_batches")
                     /\ service.memory_used \in {None} \cup
                            Reported(sanitize_metric_id(Str_svc_mem \o service.name),
                                     "service_batches")
           /\ unit._insights_enabled = PyBool(TRUE)
                 => \A path \in RunningContainers :
                       LET task == TaskAt(unit.cluster, path)
                           container == ContainerAt(unit.cluster, path)
                       IN  /\ container.cpu_used \in {None} \cup
                                  Reported(cpu_id(task, container), "container_batches")
                           /\ container.memory_used \in {None} \cup
                                  { int(v) : v \in Reported(mem_id(task, container),
                                                            "container_batches") }

\* A fetch returned on a cluster that carried values of an earlier cycle
\* (a STOPPED task's container still shows one): a service whose queries
\* got no result shows null, a RUNNING container shows a reported value.
C21_Witness ==
    /\ unit.pc = "returned"
    /\ unit._insights_enabled = PyBool(TRUE)
    /\ Len(unit.cluster.services) = 2
    /\ \E b \in DOMAIN unit.issued : unit.issued[b].outcome = "no_results"
    /\ unit.cluster.services[1].cpu_used = None
    /\ Len(unit.cluster.services[1].tasks) = 1
    /\ unit.cluster.services[1].tasks[1].status = "STOPPED"
    /\ unit.cluster.services[1].tasks[1].containers[1].cpu_used = EarlierValue
    /\ \E path \in RunningContainers :
          ContainerAt(unit.cluster, path).cpu_used
              = ContainerMetric("CpuUtilized", path)

\* ---------------------------------------------------------------------
\* MetricsFetcher: the insights flag, check_container_insights and the
\* insights_enabled property, called any number of times.
\* ---------------------------------------------------------------------

MaxCalls == 4

\* What a call gave its caller when an exception left it.
Raised == [raised |-> TRUE]

\* Faulty variant: the property asks CloudWatch on every read.
insights_unknown_always(flag) == TRUE

\* The test of the insights_enabled property: the flag is not cached.
insights_unknown(flag) == flag = None

\* check_container_insights as a whole on the fetcher u.
checked_insights(u, outcome) ==
    IF _report_progress(u._progress_callback)
    THEN [u EXCEPT !.returned = Raised]
    ELSE [u EXCEPT
             !.queries = @ + 1,
             !._insights_enabled = PyBool(check_container_insights(outcome)),
             !.returned = PyBool(check_container_insights(outcome))]

CheckContainerInsights(outcome) ==
    /\ unit.calls < MaxCalls
    /\ unit' = [checked_insights(unit, outcome) EXCEPT
                   !.calls = @ + 1, !.call = <<"check", outcome>>]
    /\ UNCHANGED appVars

ReadInsightsEnabled(outcome) ==
    /\ unit.calls < MaxCalls
    /\ unit' = [(IF insights_unknown(unit._insights_enabled)
                 THEN checked_insights(unit, outcome)
                 ELSE [unit EXCEPT !.returned = unit._insights_enabled])
                EXCEPT !.calls = @ + 1, !.call = <<"read", outcome>>]
    /\ UNCHANGED appVars

set_progress_callback(callback) ==
    /\ callback /= unit._progress_callback
    /\ unit' = [unit EXCEPT !._progress_callback = callback]
    /\ UNCHANGED appVars

InitInsights ==
    /\ IdleApp
    /\ \E callback \in ProgressCallbacks :
          unit = [_insights_enabled |-> None, _progress_callback |-> callback,
                  queries |-> 0, calls |-> 0, call |-> <<"init", "init">>,
                  returned |-> None]

NextInsights ==
    \/ \E outcome \in InsightsOutcomes : CheckContainerInsights(outcome)
    \/ \E outcome \in InsightsOutcomes : ReadInsightsEnabled(outcome)
    \/ \E callback \in ProgressCallbacks : set_progress_callback(callback)

SpecInsights == InitInsights /\ [][NextInsights]_vars

\* C22: check_container_insights returns true exactly when the statistics
\* response has at least one datapoint; with zero datapoints or when the
\* statistics query raises it returns false, records insights as disabled
\* and raises nothing.
C22_InsightsCheckResult ==
    [][\A outcome \in InsightsOutcomes :
          (CheckContainerInsights(outcome) /\ unit'.queries = unit.queries + 1)
              => /\ unit'.returned = PyBool(TRUE) <=> outcome = "datapoints"
                 /\ outcome \in {"no_datapoints", "raise"}
                       => /\ unit'.returned = PyBool(FALSE)
                          /\ unit'._insights_enabled = PyBool(FALSE)
                 /\ unit'.returned /= Raised]_vars

\* Insights was found enabled, and a later check whose statistics query
\* raised returned false and recorded insights as disabled.
C22_Witness ==
    /\ unit.call = <<"check", "raise">>
    /\ unit.queries = 2
    /\ unit.returned = PyBool(FALSE)
    /\ unit._insights_enabled = PyBool(FALSE)

\* C27: the insights state goes from unknown to true or false and never back
\* to unknown; once it is determined, reading the insights_enabled property
\* issues no further statistics query and returns the cached state, and the
\* read that determines it issues exactly one query.
C27_InsightsDeterminedOnce ==
    [][/\ unit._insights_enabled /= None => unit'._insights_enabled /= None
       /\ \A outcome \in InsightsOutcomes :
             ReadInsightsEnabled(outcome)
                 => IF unit._insights_enabled /= None
                    THEN /\ unit'.queries = unit.queries
                         /\ unit'._insights_enabled = unit._insights_enabled
                         /\ unit'.returned = unit._insights_enabled
                    ELSE unit'.returned /= Raised
                            => /\ unit'.queries = unit.queries + 1
                               /\ unit'._insights_enabled /= None]_vars

\* Four calls were made, the last one a read, and one statistics query was
\* issued in all: insights is known to be enabled.
C27_Witness ==
    /\ unit.calls = MaxCalls
    /\ unit.call[1] = "read"
    /\ unit.queries = 1
    /\ unit.returned = PyBool(TRUE)
    /\ unit._insights_enabled = PyBool(TRUE)

\* C23: an exception raised by the progress callback is not propagated by
\* the fetcher: with a raising callback fetch_metrics_for_cluster (and the
\* insights check it makes) still runs on to its normal return.
C23_ProgressFailureNotPropagated ==
    unit._progress_callback = "raises" => unit.pc /= "raised"

\* The phase the current list of queries belongs to.
CurrentPhase ==
    IF \/ unit.pc = "container_batches"
       \/ \E b \in DOMAIN unit.issued : unit.issued[b].phase = "container_batches"
    THEN "container_batches" ELSE "service_batches"

\* The queries of the calls of a phase, in call order.
Chunks(phase) ==
    Flatten([b \in 1..Len(unit.issued) |->
                IF unit.issued[b].phase = phase THEN unit.issued[b].batch ELSE <<>>])

C29_MemoryRoundedCpuExact ==
    LET nearest(tenths) == ((tenths + 5) \div 10) * 10
        attached(value) == value \notin {None, EarlierValue}
    IN  unit.pc = "returned"
            => \A si \in DOMAIN unit.cluster.services :
                  LET service == unit.cluster.services[si]
                  IN  /\ attached(service.cpu_used)
                         => service.cpu_used.tenths = Reading("CPUUtilization")
                      /\ attached(service.memory_used)
                         => service.memory_used.tenths
                                = nearest(Reading("MemoryUtilization"))
                      /\ \A ti \in DOMAIN service.tasks :
                            \A ci \in DOMAIN service.tasks[ti].containers :
                                LET container == service.tasks[ti].containers[ci]
                                IN  /\ attached(container.cpu_used)
                                       => container.cpu_used.tenths
                                              = Reading("CpuUtilized")
                                    /\ attached(container.memory_used)
                                       => container.memory_used.tenths
                                              = nearest(Reading("MemoryUtilized"))

\* C28: the loading flag and the view state agree in every reachable state
\* (loading is False exactly when current_view is MAIN), a successful initial
\* cluster-list fetch sets loading to False and shows the main container,
\* and once loading is False it never becomes True again.
C28_LoadingAgreesWithView ==
    /\ [](app.loading <=> app.current_view /= "MAIN")
    /\ [][(/\ on_worker_state_changed
           /\ Head(queue).name = "fetch_clusters"
           /\ Head(queue).state = "SUCCESS"
           /\ Head(queue).result /= None
           /\ ~Head(queue).raised
           /\ app.loading)
              => /\ ~app'.loading
                 /\ app'.current_view = "MAIN"
                 /\ screen'.main_display
                 /\ ~screen'.loading_display]_vars
    /\ [][~app.loading => ~app'.loading]_vars

\* The first list of clusters has been delivered: the app has left the
\* loading state and shows the main container.
C28_Witness ==
    /\ ~app.loading
    /\ app.current_view = "MAIN"
    /\ screen.main_display
    /\ ~screen.loading_display
    /\ app.clusters /= <<>>

\* ---------------------------------------------------------------------
\* The ServiceList widget: mount and assignments to services in any order.
\* ---------------------------------------------------------------------

\* Assignments and direct calls made to one widget.
MaxAssigns == 5

ServiceLists ==
    { <<>>, <<Service("web", 1)>>, <<Service("api", 1)>>,
      <<Service("web", 2), Service("api", 1)>>,
      <<Service("api", 1), Service("web", 2)>> }

TableColumns ==
    <<"NAME", "STATUS", "TASKS", "HEALTH", "CPU", "MEM", "IMAGE", "DEPLOYMENT">>

\* Faulty variant: the rows are added without clearing the table first.
_update_table_no_clear(u) ==
    IF ~u._columns_ready
    THEN u
    ELSE [u EXCEPT !.rows = @ \o [k \in DOMAIN u.services |-> u.services[k].name]]

\* _update_table: nothing before the columns exist; otherwise the table is
\* cleared and gets one row, keyed by name, per service.
_update_table(u) ==
    IF ~u._columns_ready
    THEN u
    ELSE [u EXCEPT !.rows = [k \in DOMAIN u.services |-> u.services[k].name]]

ServiceList_on_mount ==
    /\ ~unit.mounted
    /\ unit' = [_update_table([unit EXCEPT !.columns = TableColumns,
                                           !._columns_ready = TRUE])
                EXCEPT !.mounted = TRUE, !.call = "on_mount"]
    /\ UNCHANGED appVars

\* services = ...: the reactive stores the list and runs watch_services.
watch_services(services) ==
    /\ unit.calls < MaxAssigns
    /\ unit' = [_update_table([unit EXCEPT !.services = services])
                EXCEPT !.calls = @ + 1, !.call = "watch_services"]
    /\ UNCHANGED appVars

\* A direct call of _update_table, at any time.
ServiceList_update_table ==
    /\ unit.calls < MaxAssigns
    /\ unit' = [_update_table(unit) EXCEPT !.calls = @ + 1, !.call = "_update_table"]
    /\ UNCHANGED appVars

InitServiceList ==
    /\ IdleApp
    /\ unit = [services |-> <<>>, _columns_ready |-> FALSE, columns |-> <<>>,
               rows |-> <<>>, mounted |-> FALSE, calls |-> 0, call |-> "compose"]

NextServiceList ==
    \/ ServiceList_on_mount
    \/ \E services \in ServiceLists : watch_services(services)
    \/ ServiceList_update_table

SpecServiceList == InitServiceList /\ [][NextServiceList]_vars

\* C30: whatever the order of mount and of the assignments to services, once
\* mount has completed the table holds exactly one row per service of the
\* last assigned list, and _update_table called before the columns exist
\* changes nothing.
C30_TableFollowsServices ==
    /\ [](unit.mounted
             => /\ Len(unit.rows) = Len(unit.services)
                /\ \A k \in DOMAIN unit.services : unit.rows[k] = unit.services[k].name)
    /\ [][(ServiceList_update_table /\ ~unit._columns_ready)
             => /\ unit'.rows = unit.rows
                /\ unit'.columns = unit.columns
                /\ unit'.services = unit.services]_vars

\* Lists were assigned before and after mount, five calls in all: the mounted table holds the two rows of the last list.
C30_Witness ==
    /\ unit.mounted
    /\ unit.calls = MaxAssigns
    /\ unit.call = "watch_services"
    /\ unit.services = <<Service("web", 2), Service("api", 1)>>
    /\ unit.rows = <<"web", "api">>

\* ------------------------------------------------- the topology fetcher
\* ECSFetcher (list_clusters, fetch_cluster_state with its task-definition
\* cache), as its contract and its tests describe it.

\* the pages the cluster-ARN paginator can yield, in order
ArnPages ==
    {<<>>, << <<>> >>, << <<"alpha">> >>, << <<"alpha">>, <<"beta">> >>,
     << <<"alpha", "beta">>, <<>> >>}

\* the task-definition ARNs of the tasks and services of one cycle, in order
TaskDefinitionArns ==
    {<<>>, <<"arn:task-def:1">>, <<"arn:task-def:2">>,
     <<"arn:task-def:1", "arn:task-def:1">>,
     <<"arn:task-def:1", "arn:task-def:2">>}

ListOutcomes == {"ok", "paginate_raises", "describe_raises"}
StateOutcomes == {"ok", "describe_raises"}

Range(seq) == {seq[k] : k \in DOMAIN seq}

\* describe_clusters: one cluster per ARN asked for, in the order asked; asked
\* for no ARN at all, the provider answers for its default cluster.
describe_clusters(arns) ==
    IF arns = <<>> THEN <<ListedCluster("default")>>
    ELSE [k \in DOMAIN arns |-> ListedCluster(arns[k])]

\* Faulty variant: the detail call is made even when no ARN was listed.
list_clusters_always_describes(pages, outcome) ==
    IF outcome = "paginate_raises" THEN [described |-> FALSE, returned |-> Raised]
    ELSE IF outcome = "describe_raises" THEN [described |-> TRUE, returned |-> Raised]
    ELSE [described |-> TRUE, returned |-> PyList(describe_clusters(Flatten(pages)))]

\* ECSFetcher.list_clusters: collect the ARNs of every page; with none, return
\* the empty list without a detail call; else describe them and return the
\* clusters. A failing provider call raises.
list_clusters_paginated(pages, outcome) ==
    IF outcome = "paginate_raises" THEN [described |-> FALSE, returned |-> Raised]
    ELSE IF Flatten(pages) = <<>> THEN [described |-> FALSE, returned |-> PyList(<<>>)]
    ELSE IF outcome = "describe_raises" THEN [described |-> TRUE, returned |-> Raised]
    ELSE [described |-> TRUE, returned |-> PyList(describe_clusters(Flatten(pages)))]

\* describe_task_definition: the definition the provider holds for the ARN
describe_task_definition(arn) ==
    IF arn = "arn:task-def:1" THEN "family-a" ELSE "family-b"

\* Faulty variant: the definition fetched on a miss is not stored.
resolve_miss_not_stored(cache, arn, now, ttl) ==
    LET got == cache_get(cache, arn, now, ttl)
    IN  [cache |-> got.cache, described |-> got.result = NotFound,
         definition |-> IF got.result = NotFound
                        THEN describe_task_definition(arn) ELSE got.result]

\* One task-definition lookup: the cached definition on a hit; on a miss the
\* describe call, whose answer is stored.
resolve_task_definition(cache, arn, now, ttl) ==
    LET got == cache_get(cache, arn, now, ttl)
    IN  IF got.result = NotFound
        THEN [cache |-> cache_set(got.cache, arn, describe_task_definition(arn), now),
              described |-> TRUE,
              definition |-> describe_task_definition(arn)]
        ELSE [cache |-> got.cache, described |-> FALSE, definition |-> got.result]

\* The lookups of one cycle, in order: the cache they leave, the ARNs a
\* describe-task-definition call was made for and the definitions found.
RECURSIVE resolve_all(_, _, _, _)
resolve_all(cache, arns, now, ttl) ==
    IF arns = <<>>
    THEN [cache |-> cache, described |-> <<>>, definitions |-> <<>>]
    ELSE LET first == resolve_task_definition(cache, Head(arns), now, ttl)
             rest == resolve_all(first.cache, Tail(arns), now, ttl)
         IN  [cache |-> rest.cache,
              described |-> (IF first.described THEN <<Head(arns)>> ELSE <<>>)
                                \o rest.described,
              definitions |-> <<first.definition>> \o rest.definitions]

\* unit here: the fetcher's cache (_ttl, _cache) and the clock; as history
\* the time of the last describe-task-definition call of every ARN, and the
\* call that just ran: its input, whether it made the cluster detail call,
\* the ARNs it described and what it returned.
FetcherListClusters(pages, outcome) ==
    /\ LET result == list_clusters_paginated(pages, outcome)
       IN  unit' = [unit EXCEPT !.call = <<"list_clusters", pages, outcome>>,
                                !.described_clusters = result.described,
                                !.described = <<>>,
                                !.returned = result.returned]
    /\ UNCHANGED appVars

FetcherFetchClusterState(arns, outcome) ==
    /\ IF outcome = "describe_raises"
       THEN unit' = [unit EXCEPT !.call = <<"fetch_cluster_state", arns, outcome>>,
                                 !.described_clusters = TRUE,
                                 !.described = <<>>,
                                 !.returned = Raised]
       ELSE LET resolved == resolve_all(unit._cache, arns, unit.now, unit._ttl)
            IN  unit' = [unit EXCEPT
                    !._cache = resolved.cache,
                    !.last_describe =
                        [arn \in DOMAIN @ \cup Range(resolved.described) |->
                            IF arn \in Range(resolved.described)
                            THEN unit.now ELSE @[arn]],
                    !.call = <<"fetch_cluster_state", arns, outcome>>,
                    !.described_clusters = TRUE,
                    !.described = resolved.described,
                    !.returned = PyList(resolved.definitions)]
    /\ UNCHANGED appVars

FetcherClock ==
    /\ unit.now < MaxTime
    /\ unit' = [unit EXCEPT !.now = @ + 1, !.call = <<"clock">>,
                            !.described_clusters = FALSE,
                            !.described = <<>>, !.returned = None]
    /\ UNCHANGED appVars

InitFetcher ==
    /\ IdleApp
    /\ \E ttl \in CacheTtls :
          unit = [_ttl |-> ttl, _cache |-> <<>>, now |-> 0,
                  last_describe |-> <<>>, call |-> <<"init">>,
                  described_clusters |-> FALSE, described |-> <<>>,
                  returned |-> None]

NextFetcher ==
    \/ \E pages \in ArnPages, outcome \in ListOutcomes :
          FetcherListClusters(pages, outcome)
    \/ \E arns \in TaskDefinitionArns, outcome \in StateOutcomes :
          FetcherFetchClusterState(arns, outcome)
    \/ FetcherClock

SpecFetcher == InitFetcher /\ [][NextFetcher]_vars

\* C25: list_clusters returns the empty sequence, and raises nothing, when
\* the paginated cluster-ARN listing holds no ARN (no page, or only empty
\* pages).
C25_NoClustersEmptyList ==
    [][\A pages \in ArnPages :
          (FetcherListClusters(pages, "ok") /\ Flatten(pages) = <<>>)
              => unit'.returned = PyList(<<>>)]_vars

\* list_clusters ran over one empty page and returned the empty list.
C25_Witness ==
    /\ unit.call = <<"list_clusters", << <<>> >>, "ok">>
    /\ unit.returned = PyList(<<>>)

\* The ARN was described less than the TTL ago.
DescribedWithinTtl(arn) ==
    /\ arn \in DOMAIN unit.last_describe
    /\ unit.now - unit.last_describe[arn] < unit._ttl

\* C26: over any sequence of fetch_cluster_state cycles, a cycle calls
\* describe-task-definition for an ARN only when the ARN has no unexpired
\* cache entry, it calls it for every ARN it needs that has none, and the
\* definition fetched on a miss is stored, so that a later lookup of a cycle
\* within the TTL makes no second call.
C26_DescribeOnlyOnMiss ==
    [][\A arns \in TaskDefinitionArns :
          FetcherFetchClusterState(arns, "ok")
              => /\ \A arn \in Range(arns) :
                       arn \in Range(unit'.described) <=> ~DescribedWithinTtl(arn)
                 /\ Range(unit'.described) \subseteq Range(arns)
                 /\ unit._ttl > 0
                       => \A j, k \in DOMAIN unit'.described :
                              unit'.described[j] = unit'.described[k] => j = k]_vars

\* A cycle one second after the ARN was described, within the TTL of 2,
\* needed the ARN twice and made no describe call.
C26_Witness ==
    /\ unit._ttl = 2
    /\ unit.now = 1
    /\ unit.call = <<"fetch_cluster_state", <<"arn:task-def:1", "arn:task-def:1">>, "ok">>
    /\ unit.last_describe = [arn \in {"arn:task-def:1"} |-> 0]
    /\ unit.described = <<>>

\* ==================================== navigation and in-flight fetches
\* C31: in the two-panel app, whenever focus is on the DETAIL panel a cluster
\* is selected, after any sequence of select, deselect, escape, timer and
\* fetch-completion events.
C31_DetailFocusHasSelection ==
    app.focus_panel = "DETAIL" => app.selected_cluster /= None

\* Focus is on the DETAIL panel right after a snapshot of the selected cluster
\* was delivered.
C31_Witness ==
    /\ app.focus_panel = "DETAIL"
    /\ last_delivered /= None
    /\ app.selected_cluster = last_delivered

\* The user selects one of the clusters the list shows.
UserSelect ==
    \E i \in DOMAIN cluster_list.clusters : on_cluster_selected(cluster_list.clusters[i])

\* C32: after the user deselects the cluster, the selected cluster stays null
\* and the detail view stays empty until the next user select event, also when
\* a cluster-detail fetch that was in flight at the deselection completes
\* successfully afterwards.
C32_DeselectSurvivesInFlightFetch ==
    [][(/\ ~app.loading
        /\ app.selected_cluster = None
        /\ detail_view.cluster = None
        /\ ~UserSelect)
          => /\ app'.selected_cluster = None
             /\ detail_view'.cluster = None]_vars

\* C33: every cluster-detail snapshot installed as the selected cluster has
\* the name of the cluster selected most recently, and all remote calls of its
\* cycle were made for that one cluster name, also when the user selects a
\* different cluster while the cycle is in flight. (Stated for the deliveries
\* that find a cluster selected.)
C33_SnapshotOfSelectedCluster ==
    [][(/\ on_worker_state_changed
        /\ Head(queue).name = "refresh_data"
        /\ Head(queue).result /= None
        /\ cluster_list.selected_cluster_name /= NoName)
          => /\ app'.selected_cluster.name = cluster_list.selected_cluster_name
             /\ Head(queue).called_for = {cluster_list.selected_cluster_name}]_vars

\* ------------------------------------------------- the timer left alone
\* The two-panel application with the timer, the manual refresh and the
\* fetches only (the user selects and deselects nothing): a cluster selected
\* automatically on the initial load stays selected.  The timer keeps
\* firing, a worker thread keeps running to its return and the owner thread
\* keeps handling its messages.
WorkerStep ==
    \E i \in DOMAIN threads :
        \/ _fetch_clusters_worker(i, ClusterLists)
        \/ worker_check_container_insights(i)
        \/ worker_fetch_cluster_state(i, ServiceSets)
        \/ worker_fetch_metrics_for_cluster(i)
        \/ worker_done(i)

NextTimer ==
    \/ on_mount
    \/ _periodic_refresh
    \/ action_refresh
    \/ on_worker_state_changed
    \/ \E i \in DOMAIN threads : _fetch_clusters_worker(i, ClusterLists)
    \/ \E i \in DOMAIN threads : worker_check_container_insights(i)
    \/ \E i \in DOMAIN threads : worker_fetch_cluster_state(i, ServiceSets)
    \/ \E i \in DOMAIN threads : worker_fetch_metrics_for_cluster(i)
    \/ \E i \in DOMAIN threads : worker_done(i)

SpecTimer ==
    /\ Init
    /\ [][NextTimer]_vars
    /\ WF_vars(on_mount)
    /\ WF_vars(_periodic_refresh)
    /\ WF_vars(on_worker_state_changed)
    /\ WF_vars(WorkerStep)

\* The handler that just ran dispatched a cluster-detail fetch.
DetailFetchDispatched == \E i \in DOMAIN log : log[i] = RunWorker("refresh_data")

\* C34: while a cluster stays selected and the timer keeps firing (every
\* dispatched fetch completing), a cluster-detail fetch for the selected
\* cluster is dispatched again and again: from every state with a cluster
\* selected a later handler dispatches one.
C34_DetailRefreshedOnTimer ==
    (app.selected_cluster /= None) ~> DetailFetchDispatched

\* The owner thread handles the message of a cluster-list fetch.
ListDelivery == on_worker_state_changed /\ Head(queue).name = "fetch_clusters"

\* C35: in the two-panel app a cluster is selected automatically only by the
\* first successful cluster-list delivery, and then it is the configured
\* cluster if its name is in the list, otherwise the only cluster of a list of
\* exactly one; no later cluster-list delivery changes the cluster selection
\* or the focus panel.
C35_AutoSelectOnlyOnFirstDelivery ==
    [][ListDelivery
          => /\ ~app.loading
                   => /\ app'.selected_cluster = app.selected_cluster
                      /\ app'.focus_panel = app.focus_panel
             /\ app'.selected_cluster /= app.selected_cluster
                   => LET listed == Head(queue).result.list
                      IN  /\ app.loading
                          /\ app.selected_cluster = None
                          /\ \E k \in DOMAIN listed : app'.selected_cluster = listed[k]
                          /\ IF app._configured_cluster \in Names(listed)
                             THEN app'.selected_cluster.name = app._configured_cluster
                             ELSE Len(listed) = 1]_vars

\* The only cluster was selected on the initial load and has been refreshed;
\* a later cluster-list delivery of two clusters has been handled and the
\* selection and the focus are as they were.
C35_Witness ==
    /\ app._configured_cluster = NoName
    /\ app._refresh_worker = [name |-> "fetch_clusters", state |-> "SUCCESS"]
    /\ threads = <<>>
    /\ queue = <<>>
    /\ Len(app.clusters) = 2
    /\ app.selected_cluster /= None
    /\ app.selected_cluster.services /= {}
    /\ cluster_list.selected_cluster_name = app.selected_cluster.name
    /\ app.focus_panel = "DETAIL"

\* ================================================== the cluster detail view
\* ClusterDetailView (src/grapes/ui/cluster_detail_view.py) on its own: the
\* displayed cluster (services in order, each with its tasks, each with its
\* containers), the folded service names, the table _update_table rendered
\* and the table's cursor row.
DetailContainer(name) == [name |-> name]
DetailTask(id, containers) == [id |-> id, containers |-> containers]
DetailService(name, tasks) == [name |-> name, tasks |-> tasks]

\* a task with one container, with two, and with none
TaskOne == DetailTask("t1", <<DetailContainer("app")>>)
TaskTwo == DetailTask("t2", <<DetailContainer("app"), DetailContainer("sidecar")>>)
TaskNone == DetailTask("t0", <<>>)

\* the clusters assigned to the view
DetailClusters ==
    {None,
     [name |-> "alpha", services |-> <<>>],
     [name |-> "alpha", services |-> <<DetailService("web", <<TaskOne, TaskTwo>>),
                                        DetailService("api", <<TaskTwo>>)>>],
     [name |-> "alpha", services |-> <<DetailService("web", <<TaskOne>>),
                                        DetailService("api", <<TaskTwo>>)>>],
     [name |-> "beta", services |-> <<DetailService("web", <<>>),
                                       DetailService("api", <<TaskNone, TaskOne>>)>>]}

\* the cursor rows examined: 0 .. MaxRow (the longest table has 9 rows)
MaxRow == 9

NoItem == <<None, None, None>>

\* _update_table, lines 86-89: the container rows of a task
container_rows(service, task) ==
    IF Len(task.containers) > 1
    THEN [c \in 1..Len(task.containers) |->
             [service |-> service, task |-> task, container |-> task.containers[c]]]
    ELSE <<>>

\* _update_table, lines 82-89: the task and container rows of a service
task_rows(service) ==
    Flatten([t \in 1..Len(service.tasks) |->
        <<[service |-> service, task |-> service.tasks[t], container |-> None]>>
            \o container_rows(service, service.tasks[t])])

\* ClusterDetailView._update_table: the rows added to the cleared table, in
\* order, each with the objects it was added for.
detail_rows(cluster, folded) ==
    IF cluster = None
    THEN <<>>
    ELSE Flatten([k \in 1..Len(cluster.services) |->
             <<[service |-> cluster.services[k], task |-> None, container |-> None]>>
                 \o (IF cluster.services[k].name \in folded
                     THEN <<>>
                     ELSE task_rows(cluster.services[k]))])

\* _toggle_fold_at_cursor, lines 259-264: the rows skipped after a service row
RECURSIVE skipped_rows(_, _)
skipped_rows(tasks, t) ==
    IF t > Len(tasks)
    THEN 0
    ELSE 1 + (IF Len(tasks[t].containers) > 1 THEN Len(tasks[t].containers) ELSE 0)
           + skipped_rows(tasks, t + 1)

\* Faulty variant: the rows of a folded service are counted as well.
RECURSIVE toggle_walk_counts_folded(_, _, _, _, _)
toggle_walk_counts_folded(services, k, row_index, folded, cursor_row) ==
    IF k > Len(services)
    THEN folded
    ELSE IF row_index = cursor_row
         THEN IF services[k].name \in folded
              THEN folded \ {services[k].name}
              ELSE folded \cup {services[k].name}
         ELSE toggle_walk_counts_folded(services, k + 1,
                  row_index + 1 + skipped_rows(services[k].tasks, 1),
                  folded, cursor_row)

\* _toggle_fold_at_cursor, lines 235-264: the walk over the services with
\* the row counter; the folded set it leaves.
RECURSIVE toggle_walk(_, _, _, _, _)
toggle_walk(services, k, row_index, folded, cursor_row) ==
    IF k > Len(services)
    THEN folded
    ELSE IF row_index = cursor_row
         THEN IF services[k].name \in folded
              THEN folded \ {services[k].name}
              ELSE folded \cup {services[k].name}
         ELSE toggle_walk(services, k + 1,
                  row_index + 1 + (IF services[k].name \in folded
                                   THEN 0
                                   ELSE skipped_rows(services[k].tasks, 1)),
                  folded, cursor_row)

\* ClusterDetailView._toggle_fold_at_cursor: the folded set after the call
toggle_fold(cluster, folded, cursor_row) ==
    IF cluster = None
    THEN folded
    ELSE toggle_walk(cluster.services, 1, 0, folded, cursor_row)

NotFoundAt(row_index) == [found |-> FALSE, item |-> NoItem, row_index |-> row_index]
FoundItem(item, row_index) == [found |-> TRUE, item |-> item, row_index |-> row_index]

\* get_selected_item, lines 299-302
RECURSIVE select_containers(_, _, _, _, _)
select_containers(service, task, c, row_index, cursor_row) ==
    IF c > Len(task.containers)
    THEN NotFoundAt(row_index)
    ELSE IF row_index = cursor_row
         THEN FoundItem(<<service, task, task.containers[c]>>, row_index)
         ELSE select_containers(service, task, c + 1, row_index + 1, cursor_row)

\* Faulty variant: the container rows are walked for every task.
RECURSIVE select_tasks_single_has_rows(_, _, _, _)
select_tasks_single_has_rows(service, t, row_index, cursor_row) ==
    IF t > Len(service.tasks)
    THEN NotFoundAt(row_index)
    ELSE IF row_index = cursor_row
         THEN FoundItem(<<service, service.tasks[t], None>>, row_index)
         ELSE LET after == select_containers(service, service.tasks[t], 1,
                                             row_index + 1, cursor_row)
              IN  IF after.found
                  THEN after
                  ELSE select_tasks_single_has_rows(service, t + 1, after.row_index,
                                                    cursor_row)

\* get_selected_item, lines 292-302
RECURSIVE select_tasks(_, _, _, _)
select_tasks(service, t, row_index, cursor_row) ==
    IF t > Len(service.tasks)
    THEN NotFoundAt(row_index)
    ELSE IF row_index = cursor_row
         THEN FoundItem(<<service, service.tasks[t], None>>, row_index)
         ELSE LET after == IF Len(service.tasks[t].containers) > 1
                           THEN select_containers(service, service.tasks[t], 1,
                                                  row_index + 1, cursor_row)
                           ELSE NotFoundAt(row_index + 1)
              IN  IF after.found
                  THEN after
                  ELSE select_tasks(service, t + 1, after.row_index, cursor_row)

\* get_selected_item, lines 284-304
RECURSIVE select_services(_, _, _, _, _)
select_services(services, k, row_index, folded, cursor_row) ==
    IF k > Len(services)
    THEN NotFoundAt(row_index)
    ELSE IF row_index = cursor_row
         THEN FoundItem(<<services[k], None, None>>, row_index)
         ELSE LET after == IF services[k].name \in folded
                           THEN NotFoundAt(row_index + 1)
                           ELSE select_tasks(services[k], 1, row_index + 1, cursor_row)
              IN  IF after.found
                  THEN after
                  ELSE select_services(services, k + 1, after.row_index, folded,
                                       cursor_row)

\* ClusterDetailView.get_selected_item
get_selected_item(cluster, folded, cursor_row) ==
    IF cluster = None
    THEN NoItem
    ELSE select_services(cluster.services, 1, 0, folded, cursor_row).item

\* unit here: the view (cluster, _folded_services), its table (rows as
\* _update_table rendered them, cursor_row); as history the call that just
\* ran with what it returned, and the last toggle (its row, the folded set
\* before it) with the count of toggles in a row (streak, up to 2).
RowsShown(u) == detail_rows(u.cluster, u._folded_services)

\* detail_view.cluster = cluster: the reactive runs watch_cluster when the
\* value differs; watch_cluster rebuilds the table (clear() puts the cursor
\* back on the first row).
DetailSetCluster(cluster) ==
    /\ LET changed == cluster /= unit.cluster
           u1 == [unit EXCEPT !.cluster = cluster,
                              !._folded_services = IF cluster = None THEN {} ELSE @]
       IN  unit' = [(IF changed
                     THEN [u1 EXCEPT !.rows = RowsShown(u1), !.cursor_row = 0]
                     ELSE unit)
                       EXCEPT !.call = <<"set_cluster">>, !.returned = None,
                              !.last_toggle = None, !.streak = 0]
    /\ UNCHANGED appVars

\* The user moves the cursor to a row of the table.
DetailMoveCursor(row) ==
    /\ row < Len(unit.rows)
    /\ row /= unit.cursor_row
    /\ unit' = [unit EXCEPT !.cursor_row = row, !.call = <<"move_cursor">>,
                            !.returned = None, !.last_toggle = None, !.streak = 0]
    /\ UNCHANGED appVars

\* on_data_table_row_selected -> _toggle_fold_at_cursor: after a toggle the
\* table is rebuilt and the cursor put back on min(saved_row, row_count - 1).
DetailToggle ==
    /\ LET folded == toggle_fold(unit.cluster, unit._folded_services, unit.cursor_row)
           u1 == [unit EXCEPT !._folded_services = folded]
           row_count == Len(RowsShown(u1))
       IN  unit' = [(IF folded /= unit._folded_services
                     THEN [u1 EXCEPT !.rows = RowsShown(u1),
                                     !.cursor_row =
                                         IF row_count > 0
                                         THEN (IF unit.cursor_row < row_count - 1
                                               THEN unit.cursor_row
                                               ELSE row_count - 1)
                                         ELSE 0]
                     ELSE unit)
                       EXCEPT !.call = <<"toggle", unit.cursor_row>>,
                              !.returned = None,
                              !.last_toggle = [row |-> unit.cursor_row,
                                               from |-> unit._folded_services],
                              !.streak = IF @ < 2 THEN @ + 1 ELSE @]
    /\ UNCHANGED appVars

DetailGetSelectedItem ==
    /\ unit' = [unit EXCEPT
           !.call = <<"get_selected_item">>,
           !.returned = get_selected_item(unit.cluster, unit._folded_services,
                                          unit.cursor_row),
           !.last_toggle = None, !.streak = 0]
    /\ UNCHANGED appVars

InitDetail ==
    /\ IdleApp
    /\ unit = [cluster |-> None, _folded_services |-> {}, rows |-> <<>>,
               cursor_row |-> 0, call |-> <<"init">>, returned |-> None,
               last_toggle |-> None, streak |-> 0]

NextDetail ==
    \/ \E cluster \in DetailClusters : DetailSetCluster(cluster)
    \/ \E row \in 0..MaxRow : DetailMoveCursor(row)
    \/ DetailToggle
    \/ DetailGetSelectedItem

SpecDetail == InitDetail /\ [][NextDetail]_vars

\* The row the table shows at an index (None past the last row).
RowAt(rows, index) == IF index < Len(rows) THEN rows[index + 1] ELSE None

IsServiceRow(row) == row /= None /\ row.task = None

\* C36: toggle-fold at the cursor flips the folded state of exactly the
\* service whose service row is rendered at the cursor row and of no other
\* service; with the cursor on a task or container row, or with no cluster,
\* the folded set is unchanged; toggling twice on the same service row
\* restores the folded set.
C36_ToggleFoldsServiceAtCursor ==
    [][DetailToggle
          => LET row == RowAt(unit.rows, unit.cursor_row)
                 folded == unit._folded_services
             IN  /\ IsServiceRow(row)
                       => /\ unit.cluster /= None
                          /\ unit'._folded_services =
                                 IF row.service.name \in folded
                                 THEN folded \ {row.service.name}
                                 ELSE folded \cup {row.service.name}
                          /\ unit'.cursor_row = unit.cursor_row
                 /\ ~IsServiceRow(row) => unit'._folded_services = folded
                 /\ (/\ IsServiceRow(row)
                     /\ unit.last_toggle /= None
                     /\ unit.last_toggle.row = unit.cursor_row)
                       => unit'._folded_services = unit.last_toggle.from]_vars

\* The second service's row, the sixth of the table, was toggled twice in a
\* row: the service was folded before, is folded again, and the first
\* service never was.
C36_Witness ==
    /\ unit.streak = 2
    /\ unit.call = <<"toggle", 5>>
    /\ unit.last_toggle = [row |-> 5, from |-> {}]
    /\ unit._folded_services = {"api"}
    /\ Len(unit.rows) = 6

\* C37: for every cluster, folded set and cursor row, get_selected_item
\* returns exactly the (service, task, container) whose row _update_table
\* renders at that row index; tasks of folded services and containers of
\* single-container tasks occupy no row, and a cursor past the last row
\* yields (None, None, None).
C37_SelectedItemIsRenderedRow ==
    /\ unit.rows = RowsShown(unit)
    /\ \A cursor_row \in 0..MaxRow :
          LET row == RowAt(unit.rows, cursor_row)
          IN  get_selected_item(unit.cluster, unit._folded_services, cursor_row)
                  = IF row = None THEN NoItem
                    ELSE <<row.service, row.task, row.container>>
    /\ \A k \in DOMAIN unit.rows :
          /\ unit.rows[k].task /= None
                => unit.rows[k].service.name \notin unit._folded_services
          /\ unit.rows[k].container /= None
                => Len(unit.rows[k].task.containers) > 1
    /\ unit.call = <<"get_selected_item">>
          => unit.returned = get_selected_item(unit.cluster, unit._folded_services,
                                               unit.cursor_row)

\* With the first service folded, get_selected_item on the fifth row returned
\* the second container of the second service's two-container task.
C37_Witness ==
    /\ unit.call = <<"get_selected_item">>
    /\ unit._folded_services = {"web"}
    /\ unit.cursor_row = 4
    /\ Len(unit.rows) = 5
    /\ unit.returned = <<DetailService("api", <<TaskTwo>>), TaskTwo,
                         DetailContainer("sidecar")>>

\* C38: the app's insights_enabled flag changes only together with the
\* delivery of a successful snapshot, on the owner thread; so a
\* cluster-detail cycle that fails in the topology fetch leaves the flag at
\* the value it had before the cycle.
C38_InsightsFlagChangesOnDelivery ==
    [][app'.insights_enabled /= app.insights_enabled
          => /\ on_worker_state_changed
             /\ Head(queue).name = "refresh_data"
             /\ Head(queue).result /= None]_vars

\* C39: in the three-panel app a successful background cluster-list refresh
\* that is not the initial load leaves the focus panel and the cluster and
\* service selection unchanged when the selected cluster is still in the
\* list: focus on SERVICES or TASKS is not moved to CLUSTERS, and a cluster
\* the user deselected is not selected again.
C39_BackgroundListRefreshKeepsNavigation ==
    [][(/\ on_worker_state_changed3
        /\ Head(queue).name = "fetch_clusters"
        /\ ~Head(queue).raised
        /\ ~app.loading
        /\ \/ app.selected_cluster = None
           \/ SelectedName(app) \in Names(Head(queue).result.list))
          => /\ app'.focus_panel = app.focus_panel
             /\ app'.selected_cluster = app.selected_cluster
             /\ app'.selected_service = app.selected_service]_vars

====
